---- MODULE Spec2Model ----
(***************************************************************************)
(* Model of the sazan-imgkit web front end (examples/web): the canvas      *)
(* normalisation helpers, the wrapper around the sazan-wasm core, and the  *)
(* reactive CropperState behind the CropGrid component.                    *)
(*                                                                         *)
(* Pixel buffers are sequences of bytes, row-major RGBA, exactly as        *)
(* ImageData.data lays them out: byte c of pixel (x,y) of a buffer of      *)
(* width w sits at the 1-based position 4*(y*w + x) + c + 1.               *)
(***************************************************************************)
EXTENDS Integers, Sequences, FiniteSets, TLC

VARIABLES
    images,     \* the image objects: params.images of the helpers, state.images of CropperState
    norm,       \* result of normalizeImagesToMaxSize(images) / of the loops inlined in generateImage
    renorm,     \* result of normalising the normalised buffers once more
    call,       \* arguments of the last cropAndGridImages call
    outRgba,    \* what that call returned (or the error it threw)
    npc,        \* position in the pipeline: start, normalized, renormalized, composed, split
    tiles,      \* what splitIntoTiles returned for the region and grid of `call`
    cells,      \* per-cell writers filling a pre-allocated grid buffer
    returned    \* what a generation service returned: { ok, blobUrl?, error? }

VARIABLES
    errorMessage, infoMessage, aspectRatioMode, coordinates, cropperCurrent,
    gridCols, gridRows, activeImageIndex, lastCoordinates, image, imageWidth,
    imageHeight, isGenerating,          \* the fields of CropperState
    cropperReady,       \* CropGrid.vue: thumbnail selection enabled
    cropperLoaded,      \* the url the Cropper widget has loaded and announced ready
    cropperCoords,      \* the coordinates the Cropper widget holds
    changePending,      \* the widget has a 'change' event to deliver
    readyTimer,         \* the setTimeout of onCropperReady is running
    tasks,              \* handlers suspended at an await or a timer
    ops,                \* number of user operations so far
    nextOid             \* identity of the next image object created

pipeVars == << images, norm, renorm, call, outRgba, npc, tiles, cells, returned >>

stateVars == << errorMessage, infoMessage, aspectRatioMode, coordinates, cropperCurrent, gridCols, gridRows, activeImageIndex, lastCoordinates, image, imageWidth, imageHeight, isGenerating >>

widgetVars == << cropperReady, cropperLoaded, cropperCoords, changePending, readyTimer >>

uiVars == << stateVars, widgetVars, tasks, ops, nextOid >>

vars == << pipeVars, uiVars >>

(***************************************************************************)
(* Bounds of the model.                                                    *)
(***************************************************************************)
\* longest image list
MaxImages == 3
\* largest width and height of a source image, in pixels
MaxDim == 2
\* largest number of grid columns and of grid grid_rows
MaxGrid == 2
\* largest width and height of an image that is split into tiles
MaxSide == 3

\* number of different image files the user has at hand
MaxFiles == 2
\* longest image list the user builds in the cropper
MaxList == 2
\* number of user operations in one run of the cropper
MaxOps == 4

\* most handlers suspended at an await or a timer when the user acts
MaxPending == 1

(***************************************************************************)
(* Arithmetic helpers.                                                     *)
(***************************************************************************)
MathMax(a, b) == IF a >= b THEN a ELSE b

MathMin(a, b) == IF a <= b THEN a ELSE b

\* position of channel c of pixel (x,y) in a row-major RGBA buffer of width w
ByteIndex(w, x, y, c) == 4 * (y * w + x) + c + 1

(***************************************************************************)
(* Canvases.  A canvas is [width, height, data]; an image object's canvas  *)
(* field is optional, modelled as a sequence of zero or one canvas.        *)
(***************************************************************************)
\* no image of the model is wider or higher than this
TagStride == MathMax(MathMax(MaxDim, MaxSide), 4)

\* The pixels of the decoded image called `name`: every byte is non-zero and
\* identifies its image, pixel and channel, so that any misplaced, dropped or
\* duplicated byte shows in the result of an operation that only moves bytes.
Tag(name, x, y, c) == 1 + c + 4 * (x + TagStride * (y + TagStride * (name - 1)))

\* new OffscreenCanvas(w, h): fully transparent
NewCanvas(w, h) ==
    [width |-> w, height |-> h, data |-> [k \in 1..(w * h * 4) |-> 0]]

\* ctx.getImageData(sx, sy, sw, sh).data: pixels outside the canvas read as
\* transparent black
GetImageData(canvas, sx, sy, sw, sh) ==
    [k \in 1..(sw * sh * 4) |->
        LET p == (k - 1) \div 4
            c == (k - 1) % 4
            x == sx + (p % sw)
            y == sy + (p \div sw)
        IN  IF x < canvas.width /\ y < canvas.height
            THEN canvas.data[ByteIndex(canvas.width, x, y, c)]
            ELSE 0]

\* getImageData throws IndexSizeError when sw or sh is zero
GetImageDataThrows(sw, sh) == sw = 0 \/ sh = 0

\* drawImage throws InvalidStateError for a source canvas with a zero side
DrawImageThrows(src) == src.width = 0 \/ src.height = 0

\* dstCtx.drawImage(src, dx, dy) on a destination that is still transparent
\* (the only use in the code): the source pixels land unscaled at (dx,dy),
\* clipped to the destination
DrawImage(dst, src, dx, dy) ==
    [dst EXCEPT !.data =
        [k \in 1..(dst.width * dst.height * 4) |->
            LET p == (k - 1) \div 4
                c == (k - 1) % 4
                x == p % dst.width
                y == p \div dst.width
            IN  IF /\ x >= dx /\ x - dx < src.width
                   /\ y >= dy /\ y - dy < src.height
                THEN src.data[ByteIndex(src.width, x - dx, y - dy, c)]
                ELSE dst.data[k]]]

\* img.onload of ensureOffscreenCanvasForImages / ensureImageCanvas: a canvas
\* of the image's own size holding the image's pixels
LoadedCanvas(name, w, h) ==
    DrawImage(NewCanvas(w, h),
              [width |-> w, height |-> h,
               data |-> [k \in 1..(w * h * 4) |->
                            Tag(name, ((k - 1) \div 4) % w,
                                ((k - 1) \div 4) \div w, (k - 1) % 4)]],
              0, 0)

\* new OffscreenCanvas(width, height) + putImageData(rgba, 0, 0)
CanvasFromRgba(rgba, width, height) ==
    [width |-> width, height |-> height, data |-> rgba]

HasCanvas(imgObj) == imgObj.canvas # << >>

(***************************************************************************)
(* normalizeImagesToMaxSize (the same two loops are inlined in             *)
(* CropperState.generateImage).                                            *)
(***************************************************************************)
\* mutant: the size of the widest image is taken as a whole
MaxSizeStepWidest(acc, canvas) ==
    IF canvas.width > acc.maxWidth
    THEN [maxWidth |-> canvas.width, maxHeight |-> canvas.height]
    ELSE acc

\* one iteration of the first loop
MaxSizeStep(acc, canvas) ==
    [maxWidth  |-> MathMax(acc.maxWidth, canvas.width),
     maxHeight |-> MathMax(acc.maxHeight, canvas.height)]

RECURSIVE MaxSizeLoop(_, _, _)
MaxSizeLoop(imgs, i, acc) ==
    IF i > Len(imgs) THEN acc
    ELSE MaxSizeLoop(imgs, i + 1,
                     IF HasCanvas(imgs[i])
                     THEN MaxSizeStep(acc, imgs[i].canvas[1])
                     ELSE acc)

MaxSize(imgs) == MaxSizeLoop(imgs, 1, [maxWidth |-> 0, maxHeight |-> 0])

\* mutant: the width and the height of getImageData are swapped
SameSizeDataSwapped(srcCanvas, maxWidth, maxHeight) ==
    GetImageData(srcCanvas, 0, 0, maxHeight, maxWidth)

\* the branch for an image that already has the maximum size
SameSizeData(srcCanvas, maxWidth, maxHeight) ==
    GetImageData(srcCanvas, 0, 0, maxWidth, maxHeight)

\* mutant: the image is aligned to the bottom right of the larger canvas
PaddedDataBottomRight(srcCanvas, maxWidth, maxHeight) ==
    GetImageData(DrawImage(NewCanvas(maxWidth, maxHeight), srcCanvas,
                           maxWidth - srcCanvas.width,
                           maxHeight - srcCanvas.height),
                 0, 0, maxWidth, maxHeight)

\* the branch for a smaller image: a fresh canvas of the maximum size, the
\* image drawn at its origin
PaddedData(srcCanvas, maxWidth, maxHeight) ==
    GetImageData(DrawImage(NewCanvas(maxWidth, maxHeight), srcCanvas, 0, 0),
                 0, 0, maxWidth, maxHeight)

NormalizeOne(srcCanvas, maxWidth, maxHeight) ==
    IF srcCanvas.width = maxWidth /\ srcCanvas.height = maxHeight
    THEN SameSizeData(srcCanvas, maxWidth, maxHeight)
    ELSE PaddedData(srcCanvas, maxWidth, maxHeight)

\* the exception the canvas calls of one iteration throw, "" when none does
NormalizeOneError(srcCanvas, maxWidth, maxHeight) ==
    IF srcCanvas.width = maxWidth /\ srcCanvas.height = maxHeight
    THEN (IF GetImageDataThrows(maxWidth, maxHeight) THEN "IndexSizeError" ELSE "")
    ELSE IF DrawImageThrows(srcCanvas) THEN "InvalidStateError"
    ELSE IF GetImageDataThrows(maxWidth, maxHeight) THEN "IndexSizeError"
    ELSE ""

\* mutant: each buffer is put in front of the ones collected so far
PushRgbaFront(rgbaImages, data) == << data >> \o rgbaImages

\* rgbaImages.push(imageData.data)
PushRgba(rgbaImages, data) == Append(rgbaImages, data)

NormalizeFailed(message) ==
    [ok |-> FALSE, error |-> message, maxWidth |-> 0, maxHeight |-> 0,
     rgbaImages |-> << >>]

RECURSIVE RgbaLoop(_, _, _, _)
RgbaLoop(imgs, i, size, rgbaImages) ==
    IF i > Len(imgs)
    THEN [ok |-> TRUE, error |-> "", maxWidth |-> size.maxWidth,
          maxHeight |-> size.maxHeight, rgbaImages |-> rgbaImages]
    ELSE IF ~HasCanvas(imgs[i])
    THEN NormalizeFailed("No canvas for image")
    ELSE IF NormalizeOneError(imgs[i].canvas[1], size.maxWidth, size.maxHeight) # ""
    THEN NormalizeFailed(NormalizeOneError(imgs[i].canvas[1], size.maxWidth, size.maxHeight))
    ELSE RgbaLoop(imgs, i + 1, size,
                  PushRgba(rgbaImages,
                           NormalizeOne(imgs[i].canvas[1], size.maxWidth,
                                        size.maxHeight)))

normalizeImagesToMaxSize(imgs) == RgbaLoop(imgs, 1, MaxSize(imgs), << >>)

(***************************************************************************)
(* flattenImagesToRgba.                                                    *)
(***************************************************************************)
RECURSIVE TotalLength(_, _, _)
\* images.reduce((sum, arr) => sum + arr.length, 0)
TotalLength(arrs, i, sum) ==
    IF i > Len(arrs) THEN sum ELSE TotalLength(arrs, i + 1, sum + Len(arrs[i]))

\* mutant: every array is written at the start of the result
TypedArraySetAtStart(result, arr, offset) ==
    [k \in 1..Len(result) |-> IF k <= Len(arr) THEN arr[k] ELSE result[k]]

\* result.set(arr, offset)
TypedArraySet(result, arr, offset) ==
    [k \in 1..Len(result) |->
        IF k > offset /\ k <= offset + Len(arr) THEN arr[k - offset]
        ELSE result[k]]

\* mutant: the offset is never advanced
NextOffsetStuck(offset, arr) == offset

\* offset += arr.length
NextOffset(offset, arr) == offset + Len(arr)

RECURSIVE FlattenLoop(_, _, _, _)
FlattenLoop(arrs, i, result, offset) ==
    IF i > Len(arrs) THEN result
    ELSE FlattenLoop(arrs, i + 1, TypedArraySet(result, arrs[i], offset),
                     NextOffset(offset, arrs[i]))

\* mutant: the arrays are concatenated last to first
flattenImagesReversed(arrs) ==
    LET rev == [i \in 1..Len(arrs) |-> arrs[Len(arrs) + 1 - i]]
    IN  FlattenLoop(rev, 1, [k \in 1..TotalLength(arrs, 1, 0) |-> 0], 0)

flattenImagesToRgba(arrs) ==
    FlattenLoop(arrs, 1, [k \in 1..TotalLength(arrs, 1, 0) |-> 0], 0)

(***************************************************************************)
(* The sazan-wasm core behind crop_and_grid_images.  Its Rust source is    *)
(* not part of the front end; it is modelled from the specification        *)
(* (sections 4.2, 4.3, 6 and 7): validation first, then crop and blit.     *)
(***************************************************************************)
CoreError(name) == [ok |-> FALSE, error |-> name, data |-> << >>]

\* image i (0-based) of the flattened buffer
CoreImage(images_rgba, i, image_width, image_height) ==
    [width |-> image_width, height |-> image_height,
     data |-> SubSeq(images_rgba, i * image_width * image_height * 4 + 1,
                     (i + 1) * image_width * image_height * 4)]

\* 4.2 Cropper: pixel (x,y) of the result is pixel (left+x, top+y) of the image
CoreCrop(img, left, top, width, height) ==
    [width |-> width, height |-> height,
     data |-> [k \in 1..(width * height * 4) |->
                  LET p == (k - 1) \div 4
                  IN  img.data[ByteIndex(img.width, left + (p % width),
                                           top + (p \div width), (k - 1) % 4)]]]

\* blit of one crop into its cell, unscaled
CoreBlit(canvas, crop, dx, dy) ==
    [canvas EXCEPT !.data =
        [k \in 1..(canvas.width * canvas.height * 4) |->
            LET p == (k - 1) \div 4
                x == p % canvas.width
                y == p \div canvas.width
            IN  IF /\ x >= dx /\ x < dx + crop.width
                   /\ y >= dy /\ y < dy + crop.height
                THEN crop.data[ByteIndex(crop.width, x - dx, y - dy, (k - 1) % 4)]
                ELSE canvas.data[k]]]

RECURSIVE CoreComposeLoop(_, _, _, _, _, _, _, _, _, _, _)
\* 4.3 GridComposer: image i goes to column i mod grid_cols, row i div grid_cols; an
\* image whose row is beyond the grid is dropped
CoreComposeLoop(canvas, i, images_rgba, image_width, image_height, num_images, crop_left, crop_top, crop_width, crop_height, grid) ==
    IF i >= num_images THEN canvas
    ELSE LET col == i % grid.cols
             row == i \div grid.cols
             next ==
                IF row >= grid.rows THEN canvas
                ELSE CoreBlit(canvas,
                              CoreCrop(CoreImage(images_rgba, i, image_width,
                                                 image_height),
                                       crop_left, crop_top, crop_width,
                                       crop_height),
                              col * crop_width, row * crop_height)
         IN  CoreComposeLoop(next, i + 1, images_rgba, image_width, image_height,
                             num_images, crop_left, crop_top, crop_width,
                             crop_height, grid)

wasm_crop_and_grid_images(images_rgba, image_width, image_height, num_images, crop_left, crop_top, crop_width, crop_height, grid_cols, grid_rows) ==
    IF grid_cols = 0 \/ grid_rows = 0 THEN CoreError("InvalidGridSpecError")
    ELSE IF \/ crop_left + crop_width > image_width
            \/ crop_top + crop_height > image_height
    THEN CoreError("CropOutOfBoundsError")
    ELSE [ok |-> TRUE, error |-> "",
          data |-> CoreComposeLoop(
                       [width |-> grid_cols * crop_width,
                        height |-> grid_rows * crop_height,
                        data |-> [k \in 1..(grid_cols * crop_width * grid_rows
                                            * crop_height * 4) |-> 0]],
                       0, images_rgba, image_width, image_height, num_images,
                       crop_left, crop_top, crop_width, crop_height,
                       [cols |-> grid_cols, rows |-> grid_rows]).data]

\* mutant: the tiles are numbered from 0
CoreTileNameFromZero(prefix, index, ext) == prefix \o "_" \o ToString(index - 1) \o "." \o ext

\* 4.4: {prefix}_{index}.{ext}
CoreTileName(prefix, index, ext) == prefix \o "_" \o ToString(index) \o "." \o ext

\* mutant: every row of tiles is cut from the top of the cropped buffer
CoreTileTopRow(crop, k, cols, tile_width, tile_height) ==
    CoreCrop(crop, (k % cols) * tile_width, 0, tile_width, tile_height)

\* tile k (0-based, row-major) of the cropped buffer
CoreTile(crop, k, cols, tile_width, tile_height) ==
    CoreCrop(crop, (k % cols) * tile_width, (k \div cols) * tile_height, tile_width, tile_height)

RECURSIVE CoreSplitLoop(_, _, _, _, _, _, _, _, _)
CoreSplitLoop(acc, k, crop, cols, rows, tile_width, tile_height, prefix, ext) ==
    IF k >= cols * rows THEN acc
    ELSE CoreSplitLoop(Append(acc, [name |-> CoreTileName(prefix, k + 1, ext), image |-> CoreTile(crop, k, cols, tile_width, tile_height)]), k + 1, crop, cols, rows, tile_width, tile_height, prefix, ext)

CoreSplitError(name) == [ok |-> FALSE, error |-> name, tiles |-> << >>, prefix |-> "", ext |-> ""]

\* mutant: the remainder is dropped at the left and top edge of the crop
splitIntoTilesRemainderFirst(img, left, top, width, height, cols, rows, prefix, ext) ==
    IF cols = 0 \/ rows = 0 THEN CoreSplitError("InvalidGridSpecError")
    ELSE IF left + width > img.width \/ top + height > img.height
    THEN CoreSplitError("CropOutOfBoundsError")
    ELSE IF width \div cols = 0 \/ height \div rows = 0
    THEN CoreSplitError("DegenerateTileError")
    ELSE [ok |-> TRUE, error |-> "", prefix |-> prefix, ext |-> ext,
          tiles |-> CoreSplitLoop(<< >>, 0, CoreCrop(img, left + (width % cols), top + (height % rows), width - (width % cols), height - (height % rows)), cols, rows, width \div cols, height \div rows, prefix, ext)]

\* 4.4 TileSplitter: crop, then cols * rows tiles of region.width div cols by
\* region.height div rows pixels, row-major, named from 1
splitIntoTiles(img, left, top, width, height, cols, rows, prefix, ext) ==
    IF cols = 0 \/ rows = 0 THEN CoreSplitError("InvalidGridSpecError")
    ELSE IF left + width > img.width \/ top + height > img.height
    THEN CoreSplitError("CropOutOfBoundsError")
    ELSE IF width \div cols = 0 \/ height \div rows = 0
    THEN CoreSplitError("DegenerateTileError")
    ELSE [ok |-> TRUE, error |-> "", prefix |-> prefix, ext |-> ext,
          tiles |-> CoreSplitLoop(<< >>, 0, CoreCrop(img, left, top, width, height), cols, rows, width \div cols, height \div rows, prefix, ext)]

(***************************************************************************)
(* The wasm-bindgen binding and the wrapper of sazan-helper.ts.            *)
(***************************************************************************)
\* a JavaScript number as the u32 parameter of the export.  A negative number
\* wraps to one beyond every buffer size; the wrapped number stands 2^30 above
\* the negative one, which keeps the sums of the bounds check in range
ToU32(n) == IF n < 0 THEN 1073741824 + n ELSE n

\* crop_and_grid_images of sazan_wasm_bg.js: copies the bytes in, calls the
\* export with the numbers as u32, copies the result out
crop_and_grid_images(images_rgba, image_width, image_height, num_images, crop_left, crop_top, crop_width, crop_height, grid_cols, grid_rows) ==
    wasm_crop_and_grid_images(images_rgba, ToU32(image_width), ToU32(image_height), ToU32(num_images), ToU32(crop_left), ToU32(crop_top), ToU32(crop_width), ToU32(crop_height), ToU32(grid_cols), ToU32(grid_rows))

\* mutant: the crop width is passed for the crop height too
cropAndGridImagesWidthTwice(arrs, image_width, image_height, cropLeft, cropTop, cropWidth, cropHeight, grid_cols, grid_rows) ==
    crop_and_grid_images(flattenImagesToRgba(arrs), image_width, image_height,
                         Len(arrs), cropLeft, cropTop, cropWidth, cropWidth,
                         grid_cols, grid_rows)

\* mutant: cropLeft and cropTop are passed in each other's place
cropAndGridImagesTopLeft(arrs, image_width, image_height, cropLeft, cropTop, cropWidth, cropHeight, grid_cols, grid_rows) ==
    crop_and_grid_images(flattenImagesToRgba(arrs), image_width, image_height,
                         Len(arrs), cropTop, cropLeft, cropWidth, cropHeight,
                         grid_cols, grid_rows)

\* mutant: the wrapper repeats the list so that no cell stays empty
cropAndGridImagesRepeated(arrs, image_width, image_height, cropLeft, cropTop, cropWidth, cropHeight, grid_cols, grid_rows) ==
    crop_and_grid_images(flattenImagesToRgba(arrs \o arrs), image_width, image_height,
                         2 * Len(arrs), cropLeft, cropTop, cropWidth, cropHeight,
                         grid_cols, grid_rows)

\* mutant: the wrapper raises a grid side of zero to one
cropAndGridImagesAtLeastOne(arrs, image_width, image_height, cropLeft, cropTop, cropWidth, cropHeight, grid_cols, grid_rows) ==
    crop_and_grid_images(flattenImagesToRgba(arrs), image_width, image_height,
                         Len(arrs), cropLeft, cropTop, cropWidth, cropHeight,
                         MathMax(1, grid_cols), MathMax(1, grid_rows))

\* mutant: the wrapper trims the crop to the image before calling the core
cropAndGridImagesTrimmed(arrs, image_width, image_height, cropLeft, cropTop, cropWidth, cropHeight, grid_cols, grid_rows) ==
    crop_and_grid_images(flattenImagesToRgba(arrs), image_width, image_height,
                         Len(arrs), cropLeft, cropTop,
                         MathMin(cropWidth, image_width - cropLeft),
                         MathMin(cropHeight, image_height - cropTop),
                         grid_cols, grid_rows)

cropAndGridImages(arrs, image_width, image_height, cropLeft, cropTop, cropWidth, cropHeight, grid_cols, grid_rows) ==
    crop_and_grid_images(flattenImagesToRgba(arrs), image_width, image_height,
                         Len(arrs), cropLeft, cropTop, cropWidth, cropHeight,
                         grid_cols, grid_rows)

\* new ImageData(data, sw, sh) accepts the bytes only when there are exactly
\* 4 * sw * sh of them and neither side is zero
ImageDataAccepts(data, sw, sh) ==
    sw > 0 /\ sh > 0 /\ Len(data) = 4 * sw * sh

(***************************************************************************)
(* The pipeline as the generation services run it, on image lists drawn    *)
(* from bounded sets.                                                      *)
(***************************************************************************)
NoResult ==
    [ok |-> FALSE, error |-> "not run", maxWidth |-> 0, maxHeight |-> 0,
     rgbaImages |-> << >>]

NoCall ==
    [cropLeft |-> 0, cropTop |-> 0, cropWidth |-> 0, cropHeight |-> 0,
     gridCols |-> 0, gridRows |-> 0]

NoOutput == [ok |-> FALSE, error |-> "not called", data |-> << >>]

NoTiles == [ok |-> FALSE, error |-> "not called", tiles |-> << >>, prefix |-> "", ext |-> ""]

NoCells == [data |-> << >>, pending |-> {}, written |-> {}, started |-> FALSE]

Dims == (1..MaxDim) \X (1..MaxDim)

\* canvas sizes with a zero side
ZeroDims == { << 0, 0 >>, << 0, 1 >>, << 1, 0 >> }

\* an image object whose canvas is present (d = << w, h >>) or still missing
\* (d = << >>)
ImageObject(name, d) ==
    [name |-> name,
     canvas |-> IF d = << >> THEN << >>
                ELSE << LoadedCanvas(name, d[1], d[2]) >>]

ImageList(ds) == [i \in 1..Len(ds) |-> ImageObject(i, ds[i])]

DimLists(options) ==
    UNION { [1..n -> options] : n \in 0..MaxImages }

\* CropperState's fields and the widget, as constructed
Null == "null"

\* '' for state.image
NoUrl == 0

Coords(l, t, w, h) == [left |-> l, top |-> t, width |-> w, height |-> h]

\* the files the user can drop: file f has name f (names sort like the
\* numbers) and reads as the data URL f
Files == 1..MaxFiles

\* img.naturalWidth / img.naturalHeight of the image decoded from a url
NaturalWidth(url) == IF url = 2 THEN 2 ELSE 4

NaturalHeight(url) == IF url = 1 THEN 4 ELSE IF url = 2 THEN 2 ELSE 1

\* the constructor's field values
UiConstructed ==
    /\ errorMessage = Null
    /\ infoMessage = Null
    /\ aspectRatioMode = "square"
    /\ coordinates = Coords(0, 0, 100, 100)
    /\ cropperCurrent = Coords(0, 0, 100, 100)
    /\ gridCols = 3
    /\ gridRows = 3
    /\ activeImageIndex = -1
    /\ lastCoordinates = << >>
    /\ image = NoUrl
    /\ imageWidth = 500
    /\ imageHeight = 500
    /\ isGenerating = FALSE
    /\ cropperReady = TRUE
    /\ cropperLoaded = NoUrl
    /\ cropperCoords = Coords(0, 0, 100, 100)
    /\ changePending = FALSE
    /\ readyTimer = FALSE
    /\ tasks = {}
    /\ ops = 0
    /\ nextOid = 1

\* no service has returned yet
NoReturn == [ok |-> FALSE, error |-> "pending", blobUrl |-> ""]

PipeIdle ==
    /\ norm = NoResult
    /\ renorm = NoResult
    /\ call = NoCall
    /\ outRgba = NoOutput
    /\ npc = "start"
    /\ tiles = NoTiles
    /\ cells = NoCells
    /\ returned = NoReturn

\* any list of up to MaxImages images, of any sizes, some without a canvas
InitNormalize ==
    /\ \E ds \in DimLists(Dims \cup {<< >>}) : images = ImageList(ds)
    /\ PipeIdle
    /\ UiConstructed

\* lists in which at least one canvas has a zero side
InitInvalid ==
    /\ \E ds \in DimLists(Dims \cup ZeroDims \cup {<< >>}) :
          /\ \E i \in DOMAIN ds : ds[i] \in ZeroDims
          /\ images = ImageList(ds)
    /\ PipeIdle
    /\ UiConstructed

\* lists of one to MaxImages images that all have the same size
InitCompose ==
    /\ \E n \in 1..MaxImages : \E d \in Dims :
           images = ImageList([i \in 1..n |-> d])
    /\ PipeIdle
    /\ UiConstructed

\* ({ maxWidth, maxHeight, rgbaImages } = normalizeImagesToMaxSize(images))
Normalize ==
    /\ npc = "start"
    /\ norm' = normalizeImagesToMaxSize(images)
    /\ npc' = "normalized"
    /\ UNCHANGED << returned, images, renorm, call, outRgba, tiles, cells, uiVars >>

\* the normalised buffers, put back on canvases, normalised again
Renormalize ==
    /\ npc = "normalized"
    /\ norm.ok
    /\ renorm' = normalizeImagesToMaxSize(
                     [i \in 1..Len(norm.rgbaImages) |->
                         [name |-> images[i].name,
                          canvas |-> << CanvasFromRgba(norm.rgbaImages[i],
                                                       norm.maxWidth,
                                                       norm.maxHeight) >>]])
    /\ npc' = "renormalized"
    /\ UNCHANGED << returned, images, norm, call, outRgba, tiles, cells, uiVars >>

\* the try block of generateCropGridImage / CropSplitService.generateImage
Compose ==
    /\ npc = "normalized"
    /\ norm.ok
    /\ \E cropLeft, cropTop \in 0..(MaxDim - 1) :
       \E cropWidth, cropHeight \in 1..MaxDim :
       \E grid_cols, grid_rows \in 0..MaxGrid :
          /\ call' = [cropLeft |-> cropLeft, cropTop |-> cropTop,
                      cropWidth |-> cropWidth, cropHeight |-> cropHeight,
                      gridCols |-> grid_cols, gridRows |-> grid_rows]
          /\ outRgba' = cropAndGridImages(norm.rgbaImages, norm.maxWidth,
                                          norm.maxHeight, cropLeft, cropTop,
                                          cropWidth, cropHeight, grid_cols,
                                          grid_rows)
    /\ npc' = "composed"
    /\ UNCHANGED << returned, images, norm, renorm, tiles, cells, uiVars >>

\* the output bytes a blit writes
CoreBlitRange(canvas, crop, dx, dy) ==
    { k \in 1..(canvas.width * canvas.height * 4) :
         LET p == (k - 1) \div 4
             x == p % canvas.width
             y == p \div canvas.width
         IN  /\ x >= dx /\ x < dx + crop.width
             /\ y >= dy /\ y < dy + crop.height }

\* mutant: the row offset is counted in cell widths
CellOriginRowByWidth(i, cols, cell_width, cell_height) ==
    [x |-> (i % cols) * cell_width, y |-> (i \div cols) * cell_width]

\* 4.3: the cell of image i is at pixel offset (col * cellWidth, row * cellHeight)
CellOrigin(i, cols, cell_width, cell_height) ==
    [x |-> (i % cols) * cell_width, y |-> (i \div cols) * cell_height]

\* 5: the same composition with one writer per placed cell, the writers
\* sharing the output buffer and not started yet
StartCells ==
    /\ npc = "composed"
    /\ outRgba.ok
    /\ cells = NoCells
    /\ cells' = [data |-> [k \in 1..(call.gridCols * call.cropWidth * call.gridRows * call.cropHeight * 4) |-> 0],
                 pending |-> { i \in 0..(Len(norm.rgbaImages) - 1) : i < call.gridCols * call.gridRows },
                 written |-> {}, started |-> TRUE]
    /\ UNCHANGED << returned, images, norm, renorm, call, outRgba, npc, tiles, uiVars >>

\* the writer of one cell runs: it blits the crop of its image into its cell
WriteCell ==
    /\ cells # NoCells
    /\ \E i \in cells.pending :
          LET canvas == [width |-> call.gridCols * call.cropWidth,
                         height |-> call.gridRows * call.cropHeight,
                         data |-> cells.data]
              crop == CoreCrop(CoreImage(flattenImagesToRgba(norm.rgbaImages), i, norm.maxWidth, norm.maxHeight),
                               call.cropLeft, call.cropTop, call.cropWidth, call.cropHeight)
              o == CellOrigin(i, call.gridCols, call.cropWidth, call.cropHeight)
          IN  cells' = [data |-> CoreBlit(canvas, crop, o.x, o.y).data,
                        pending |-> cells.pending \ {i},
                        written |-> cells.written \cup {[cell |-> i, range |-> CoreBlitRange(canvas, crop, o.x, o.y)]},
                        started |-> TRUE]
    /\ UNCHANGED << returned, images, norm, renorm, call, outRgba, npc, tiles, uiVars >>

\* the pixel arrays of the canvases as they are, of different lengths
RawArrays == [i \in 1..Len(images) |-> images[i].canvas[1].data]

\* const flat = flattenImagesToRgba(images) and the images.length handed on
\* with it, for the arrays as loaded or as normalised
Flatten ==
    /\ call = NoCall
    /\ \E arrs \in (IF npc = "start" /\ \A i \in 1..Len(images) : HasCanvas(images[i])
                     THEN { RawArrays } ELSE {})
                  \cup (IF npc = "normalized" /\ norm.ok THEN { norm.rgbaImages } ELSE {}) :
          call' = [images |-> arrs, images_rgba |-> flattenImagesToRgba(arrs), num_images |-> Len(arrs)]
    /\ UNCHANGED << returned, images, norm, renorm, outRgba, npc, tiles, cells, uiVars >>

\* the prefixes a split is asked for
Prefixes == { "tile", "part" }

\* one image of up to MaxSide by MaxSide pixels
InitSplit ==
    /\ \E d \in (1..MaxSide) \X (1..MaxSide) : images = ImageList(<< d >>)
    /\ PipeIdle
    /\ UiConstructed

\* crop-split of the first normalised image: Cropper, then TileSplitter
Split ==
    /\ npc = "normalized"
    /\ norm.ok
    /\ Len(norm.rgbaImages) >= 1
    /\ \E left, top \in 0..(MaxSide - 1) :
       \E width, height \in 1..MaxSide :
       \E cols, rows \in 0..MaxGrid :
       \E prefix \in Prefixes :
          /\ call' = [cropLeft |-> left, cropTop |-> top,
                      cropWidth |-> width, cropHeight |-> height,
                      gridCols |-> cols, gridRows |-> rows]
          /\ tiles' = splitIntoTiles(CanvasFromRgba(norm.rgbaImages[1], norm.maxWidth, norm.maxHeight), left, top, width, height, cols, rows, prefix, "png")
    /\ npc' = "split"
    /\ UNCHANGED << returned, images, norm, renorm, outRgba, cells, uiVars >>

NextNormalize == Normalize \/ Renormalize \/ Flatten

NextCompose == Normalize \/ Compose \/ Split \/ StartCells \/ WriteCell

NextSplit == Normalize \/ Split

SpecNormalize == InitNormalize /\ [][NextNormalize]_vars

NextInvalid == Normalize

SpecInvalid == InitInvalid /\ [][NextInvalid]_vars

SpecCompose == InitCompose /\ [][NextCompose]_vars

SpecSplit == InitSplit /\ [][NextSplit]_vars

(***************************************************************************)
(* CropperState (useCropperState.ts) behind the CropGrid component.        *)
(* A handler runs to its next await or timer in one step; what it awaits   *)
(* is kept in `tasks` and resumes as a later step, in any order.           *)
(***************************************************************************)
Init ==
    /\ images = << >>
    /\ PipeIdle
    /\ UiConstructed

Task(id, kind, pc) ==
    [id |-> id, kind |-> kind, pc |-> pc, batch |-> << >>, src |-> NoUrl,
     keep |-> FALSE, idx |-> 0, captured |-> {}, snapshot |-> << >>, done |-> << >>,
     crop |-> << >>]

\* the else branch of updateImageSize: a centred square of half the width
DefaultCrop(naturalWidth, naturalHeight) ==
    LET cropW == naturalWidth \div 2
        cropH == cropW
        cropL == (naturalWidth - cropW) \div 2
        cropT == (naturalHeight - cropH) \div 2
    IN  Coords(cropL, cropT, cropW, cropH)

\* img.onload of updateImageSize(src, keepCoordinates): the new coordinates
OnloadCoordinates(src, keepCoordinates) ==
    IF keepCoordinates /\ lastCoordinates # << >>
    THEN lastCoordinates[1]
    ELSE DefaultCrop(NaturalWidth(src), NaturalHeight(src))

\* the Cropper widget of vue-advanced-cropper, as CropGrid.vue configures it
\* (min-width 1, min-height 1, max-width imageWidth, max-height imageHeight,
\* the stencil's aspect ratio): it keeps its stencil inside the image
CropperFit(c, w, h, mode) ==
    LET w0 == MathMax(1, MathMin(c.width, w))
        h0 == MathMax(1, MathMin(c.height, h))
        cw == IF mode = "square" THEN MathMin(w0, h0) ELSE w0
        ch == IF mode = "square" THEN MathMin(w0, h0) ELSE h0
    IN  Coords(MathMax(0, MathMin(c.left, w - cw)),
               MathMax(0, MathMin(c.top, h - ch)), cw, ch)

\* the Cropper is mounted (v-if="state.image"), so cropperRef is set
CropperMounted == image # NoUrl

\* cropperRef.setCoordinates(c): a widget that has loaded its image moves its
\* stencil and announces the change later
WidgetSetCoordinates(c, mode) ==
    IF CropperMounted /\ cropperLoaded = image
    THEN /\ cropperCoords' = CropperFit(c, NaturalWidth(image), NaturalHeight(image), mode)
         /\ changePending' = TRUE
    ELSE UNCHANGED << cropperCoords, changePending >>

\* setCoordinates(coords) of CropperState, applyToCropper = true
SetCoordinates(c, mode) ==
    /\ coordinates' = c
    /\ IF CropperMounted
       THEN /\ WidgetSetCoordinates(c, mode)
            /\ cropperCurrent' = c
       ELSE UNCHANGED << cropperCoords, changePending, cropperCurrent >>

\* the values a user enters in a numeric input: its minimum and its maximum
InputRange(field) ==
    CASE field = "left" -> {0, imageWidth}
      [] field = "top" -> {0, imageHeight}
      [] field = "width" -> {1, imageWidth}
      [] field = "height" -> {1, imageHeight}

\* the computed setters left, top, width, height of CropGrid.vue
InputCoordinates(field, v) ==
    CASE field = "left" -> [coordinates EXCEPT !.left = v]
      [] field = "top" -> [coordinates EXCEPT !.top = v]
      [] field = "width" ->
            IF aspectRatioMode = "square"
            THEN [coordinates EXCEPT !.width = v, !.height = v]
            ELSE [coordinates EXCEPT !.width = v]
      [] field = "height" ->
            IF aspectRatioMode = "square"
            THEN [coordinates EXCEPT !.width = v, !.height = v]
            ELSE [coordinates EXCEPT !.height = v]

NumericInput ==
    /\ ops < MaxOps
    /\ \E field \in {"left", "top", "width", "height"} :
       \E v \in InputRange(field) :
          /\ InputCoordinates(field, v) # coordinates
          /\ SetCoordinates(InputCoordinates(field, v), aspectRatioMode)
    /\ ops' = ops + 1
    /\ UNCHANGED << pipeVars, errorMessage, infoMessage, aspectRatioMode, gridCols, gridRows, activeImageIndex, lastCoordinates, image, imageWidth, imageHeight, isGenerating, cropperReady, cropperLoaded, readyTimer, tasks, nextOid >>

\* onAspectRatioChange -> setAspectRatioMode(mode); the widget's stencil gets
\* the new aspect ratio
SetAspectRatioMode ==
    /\ ops < MaxOps
    /\ \E mode \in {"square", "free"} :
          /\ mode # aspectRatioMode
          /\ aspectRatioMode' = mode
          /\ IF mode = "square"
             THEN LET minSide == MathMin(imageWidth, imageHeight)
                      newValue == MathMin(MathMin(coordinates.width, coordinates.height), minSide)
                  IN  SetCoordinates([coordinates EXCEPT !.width = newValue, !.height = newValue], mode)
             ELSE SetCoordinates(coordinates, mode)
    /\ ops' = ops + 1
    /\ UNCHANGED << pipeVars, errorMessage, infoMessage, gridCols, gridRows, activeImageIndex, lastCoordinates, image, imageWidth, imageHeight, isGenerating, cropperReady, cropperLoaded, readyTimer, tasks, nextOid >>

\* the user drags the stencil of a loaded widget out to the largest crop
\* at the image's origin
UserMovesStencil ==
    /\ ops < MaxOps
    /\ CropperMounted /\ cropperLoaded = image
    /\ cropperCoords' = CropperFit(Coords(0, 0, NaturalWidth(image), NaturalHeight(image)), NaturalWidth(image), NaturalHeight(image), aspectRatioMode)
    /\ cropperCoords' # cropperCoords
    /\ changePending' = TRUE
    /\ ops' = ops + 1
    /\ UNCHANGED << pipeVars, stateVars, cropperReady, cropperLoaded, readyTimer, tasks, nextOid >>

\* the widget's 'change' event: onCropperChange
CropperChange ==
    /\ changePending
    /\ coordinates' = cropperCoords
    /\ cropperCurrent' = cropperCoords
    /\ changePending' = FALSE
    /\ UNCHANGED << pipeVars, errorMessage, infoMessage, aspectRatioMode, gridCols, gridRows, activeImageIndex, lastCoordinates, image, imageWidth, imageHeight, isGenerating, cropperReady, cropperLoaded, cropperCoords, readyTimer, tasks, ops, nextOid >>

\* the widget has loaded a new src and emits 'ready': onCropperReady
CropperReady ==
    /\ CropperMounted /\ cropperLoaded # image
    /\ cropperLoaded' = image
    /\ LET c == IF coordinates.width = 1
                THEN [coordinates EXCEPT !.width = 500]
                ELSE coordinates
       IN  /\ coordinates' = c
           /\ cropperCoords' = CropperFit(c, NaturalWidth(image), NaturalHeight(image), aspectRatioMode)
    /\ changePending' = TRUE
    /\ readyTimer' = TRUE
    /\ UNCHANGED << pipeVars, errorMessage, infoMessage, aspectRatioMode, cropperCurrent, gridCols, gridRows, activeImageIndex, lastCoordinates, image, imageWidth, imageHeight, isGenerating, cropperReady, tasks, ops, nextOid >>

\* the timer of onCropperReady fires
ReadyTimerFires ==
    /\ readyTimer
    /\ readyTimer' = FALSE
    /\ cropperReady' = TRUE
    /\ UNCHANGED << pipeVars, stateVars, cropperLoaded, cropperCoords, changePending, tasks, ops, nextOid >>


\* the FileLists a drop can carry: some of the files, in any order
Batches ==
    { b \in UNION { [1..n -> Files] : n \in 1..MaxFiles } :
         \A i, j \in DOMAIN b : i # j => b[i] # b[j] }

\* file.name as its UTF-16 code units: "IMG10" for file 1, "img2" for file 2,
\* "img10" for any other
FileName(file) ==
    CASE file = 1 -> << 73, 77, 71, 49, 48 >>
      [] file = 2 -> << 105, 109, 103, 50 >>
      [] OTHER -> << 105, 109, 103, 49, 48 >>

\* readFileAsDataURL(file) resolved: { name: file.name, url }
ReadFile(file) == [name |-> FileName(file), url |-> file]

\* a code unit of '0'..'9'
IsDigit(c) == c \in 48..57

\* sensitivity 'base': 'A'..'Z' compare as 'a'..'z'
FoldCase(c) == IF c \in 65..90 THEN c + 32 ELSE c

\* the letters of a name, case folded, and its digits
Letters(name) == [k \in 1..Len(SelectSeq(name, LAMBDA c : ~IsDigit(c))) |-> FoldCase(SelectSeq(name, LAMBDA c : ~IsDigit(c))[k])]

Digits(name) == SelectSeq(name, IsDigit)

\* numeric: true compares a run of digits by its value
RECURSIVE NumericValue(_)
NumericValue(ds) ==
    IF ds = << >> THEN 0
    ELSE 10 * NumericValue(SubSeq(ds, 1, Len(ds) - 1)) + (ds[Len(ds)] - 48)

\* -1, 0 or 1 as the sequence a is before, equal to or after b
RECURSIVE CompareSeq(_, _)
CompareSeq(a, b) ==
    IF a = << >> THEN (IF b = << >> THEN 0 ELSE -1)
    ELSE IF b = << >> THEN 1
    ELSE IF Head(a) < Head(b) THEN -1
    ELSE IF Head(a) > Head(b) THEN 1
    ELSE CompareSeq(Tail(a), Tail(b))

\* mutant: the names are compared code unit by code unit
LocaleCompareCodeUnits(a, b) == CompareSeq(a, b)

\* a.localeCompare(b, undefined, { numeric: true, sensitivity: 'base' }) for
\* names made of letters followed by digits
LocaleCompare(a, b) ==
    IF CompareSeq(Letters(a), Letters(b)) # 0 THEN CompareSeq(Letters(a), Letters(b))
    ELSE IF NumericValue(Digits(a)) < NumericValue(Digits(b)) THEN -1
    ELSE IF NumericValue(Digits(a)) > NumericValue(Digits(b)) THEN 1
    ELSE 0

RECURSIVE InsertByName(_, _)
InsertByName(sorted, x) ==
    IF sorted = << >> THEN << x >>
    ELSE IF LocaleCompare(x.name, Head(sorted).name) < 0 THEN << x >> \o sorted
    ELSE << Head(sorted) >> \o InsertByName(Tail(sorted), x)

\* newImages.sort((a, b) => a.name.localeCompare(b.name, ...))
RECURSIVE SortByName(_)
SortByName(s) ==
    IF s = << >> THEN << >>
    ELSE InsertByName(SortByName(SubSeq(s, 1, Len(s) - 1)), s[Len(s)])

\* this.images.push({ name: img.name, url: img.url }) for each new image;
\* oid tells the objects apart
PushImages(list, newImages, firstOid) ==
    list \o [k \in 1..Len(newImages) |->
                [name |-> newImages[k].name, url |-> newImages[k].url,
                 oid |-> firstOid + k - 1, canvas |-> << >>]]

\* this.images.splice(idx, 1), idx counted from 0
Splice(list, idx) ==
    [k \in 1..(Len(list) - 1) |-> IF k <= idx THEN list[k] ELSE list[k + 1]]

\* this.image ? { ...this.coordinates } : null
SavedCoordinates == IF image # NoUrl THEN << coordinates >> ELSE << >>

\* a drop of files on the drop area or on the cropper: onImageDrop up to its
\* await of the file reads
DropStartWithin(limit) ==
    /\ ops < MaxOps
    /\ Cardinality(tasks) < limit
    /\ \E batch \in Batches :
          /\ Len(images) + Len(batch) <= MaxList
          /\ tasks' = tasks \cup {[Task(ops + 1, "drop", "read") EXCEPT !.batch = batch, !.crop = SavedCoordinates]}
    /\ infoMessage' = "Registering image files..."
    /\ ops' = ops + 1
    /\ UNCHANGED << pipeVars, errorMessage, aspectRatioMode, coordinates, cropperCurrent, gridCols, gridRows, activeImageIndex, lastCoordinates, image, imageWidth, imageHeight, isGenerating, widgetVars, nextOid >>

\* a drop while no other handler is pending
DropStart == DropStartWithin(MaxPending)

\* what Promise.all resolves with: the results in the order of the files,
\* whatever order the reads completed in
PromiseAll(t) == [k \in 1..Len(t.batch) |-> ReadFile(t.batch[k])]

\* all files of the drop t are read: onImageDrop from the sort to its await
\* of updateImageSize
DropReadOf(t) ==
       /\ t.kind = "drop" /\ t.pc = "read"
       /\ LET newImages == SortByName(PromiseAll(t))
              list == PushImages(images, newImages, nextOid)
              last == SavedCoordinates
          IN  /\ images' = list
              /\ activeImageIndex' = Len(list) - 1
              /\ lastCoordinates' = last
              /\ image' = list[Len(list)].url
              /\ tasks' = (tasks \ {t}) \cup {[t EXCEPT !.pc = "load", !.src = list[Len(list)].url, !.keep = (last # << >>)]}
              /\ nextOid' = nextOid + Len(newImages)
       /\ UNCHANGED << returned, norm, renorm, call, outRgba, npc, tiles, cells, errorMessage, infoMessage, aspectRatioMode, coordinates, cropperCurrent, gridCols, gridRows, imageWidth, imageHeight, isGenerating, widgetVars, ops >>

\* the reads of a drop taken as one step
DropRead == \E t \in tasks : DropReadOf(t)

\* reader.onload of one file of a drop: its promise resolves
DropFileRead ==
    \E t \in tasks :
       /\ t.kind = "drop" /\ t.pc = "read"
       /\ \E k \in 1..Len(t.batch) :
             /\ \A m \in 1..Len(t.done) : t.done[m] # k
             /\ tasks' = (tasks \ {t}) \cup {[t EXCEPT !.done = Append(@, k)]}
       /\ UNCHANGED << pipeVars, stateVars, widgetVars, ops, nextOid >>

\* the last read of a drop has completed: Promise.all resolves
DropReadComplete == \E t \in tasks : Len(t.done) = Len(t.batch) /\ DropReadOf(t)

\* reader.onerror of a file of a drop: Promise.all rejects and the catch of
\* onImageDrop runs
DropFileError ==
    \E t \in tasks :
       /\ t.kind = "drop" /\ t.pc = "read"
       /\ Len(t.done) < Len(t.batch)
       /\ errorMessage' = "Failed to read one or more files."
       /\ infoMessage' = Null
       /\ tasks' = tasks \ {t}
       /\ UNCHANGED << pipeVars, aspectRatioMode, coordinates, cropperCurrent, gridCols, gridRows, activeImageIndex, lastCoordinates, image, imageWidth, imageHeight, isGenerating, widgetVars, ops, nextOid >>

\* a click on a thumbnail: onThumbClick, onSetActiveImage and setActiveImage
\* up to its await of updateImageSize, which loads the image shown so far
SetActiveImageWithin(limit) ==
    /\ ops < MaxOps
    /\ Cardinality(tasks) < limit
    /\ CropperMounted
    /\ cropperReady
    /\ \E idx \in 0..(Len(images) - 1) :
          /\ tasks' = tasks \cup {[Task(ops + 1, "select", "load") EXCEPT !.src = image, !.keep = TRUE, !.idx = idx, !.crop = SavedCoordinates]}
          /\ activeImageIndex' = idx
    /\ cropperReady' = FALSE
    /\ lastCoordinates' = SavedCoordinates
    /\ ops' = ops + 1
    /\ UNCHANGED << pipeVars, errorMessage, infoMessage, aspectRatioMode, coordinates, cropperCurrent, gridCols, gridRows, image, imageWidth, imageHeight, isGenerating, cropperLoaded, cropperCoords, changePending, readyTimer, nextOid >>

\* a click on a thumbnail while no other handler is pending
SetActiveImage == SetActiveImageWithin(MaxPending)

\* mutant: an active index behind the removed entry is not decremented
RemoveActiveIndexKept(idx) ==
    IF activeImageIndex = idx THEN (IF idx > 0 THEN idx - 1 ELSE 0)
    ELSE activeImageIndex

\* removeImage: the new activeImageIndex and image
RemoveActiveIndex(idx) ==
    IF activeImageIndex = idx THEN (IF idx > 0 THEN idx - 1 ELSE 0)
    ELSE IF activeImageIndex > idx THEN activeImageIndex - 1
    ELSE activeImageIndex

\* a click on a thumbnail's remove button: removeImage up to its await
RemoveImageWithin(limit) ==
    /\ ops < MaxOps
    /\ Cardinality(tasks) < limit
    /\ CropperMounted
    /\ \E idx \in 0..(Len(images) - 1) :
          LET list == Splice(images, idx)
          IN  /\ images' = list
              /\ IF Len(list) = 0
                 THEN /\ activeImageIndex' = -1
                      /\ image' = NoUrl
                      /\ cropperLoaded' = NoUrl
                      /\ changePending' = FALSE
                      /\ tasks' = tasks
                 ELSE /\ activeImageIndex' = RemoveActiveIndex(idx)
                      /\ image' = IF activeImageIndex = idx
                                  THEN list[RemoveActiveIndex(idx) + 1].url
                                  ELSE image
                      /\ tasks' = tasks \cup {[Task(ops + 1, "remove", "load") EXCEPT !.src = image', !.keep = TRUE, !.crop = << coordinates >>]}
                      /\ UNCHANGED << cropperLoaded, changePending >>
    /\ ops' = ops + 1
    /\ UNCHANGED << returned, norm, renorm, call, outRgba, npc, tiles, cells, errorMessage, infoMessage, aspectRatioMode, coordinates, cropperCurrent, gridCols, gridRows, lastCoordinates, imageWidth, imageHeight, isGenerating, cropperReady, cropperCoords, readyTimer, nextOid >>

\* a click on a remove button while no other handler is pending
RemoveImage == RemoveImageWithin(MaxPending)

\* img.onload of updateImageSize and what the awaiting handler does next:
\* onImageDrop clears the info message, setActiveImage sets this.image
\* (images[idx] may be gone by now: the read of its url then throws)
ImageLoaded ==
    \E t \in tasks :
       /\ t.pc = "load"
       /\ imageWidth' = NaturalWidth(t.src)
       /\ imageHeight' = NaturalHeight(t.src)
       /\ coordinates' = OnloadCoordinates(t.src, t.keep)
       /\ infoMessage' = IF t.kind = "drop" THEN Null ELSE infoMessage
       /\ image' = IF t.kind = "select" /\ t.idx < Len(images)
                   THEN images[t.idx + 1].url
                   ELSE image
       /\ tasks' = tasks \ {t}
       /\ UNCHANGED << pipeVars, errorMessage, aspectRatioMode, cropperCurrent, gridCols, gridRows, activeImageIndex, lastCoordinates, isGenerating, widgetVars, ops, nextOid >>


(***************************************************************************)
(* Claims about normalisation, checked under SpecNormalize.                *)
(***************************************************************************)
Normalized == npc # "start" /\ norm.ok

Src(i) == images[i].canvas[1]

Uniform ==
    /\ Len(images) > 0
    /\ \A i \in 1..Len(images) :
          /\ HasCanvas(images[i])
          /\ Src(i).width = Src(1).width
          /\ Src(i).height = Src(1).height

\* C1: for a non-empty list, maxWidth is the largest canvas width and
\* maxHeight the largest canvas height, each maximised on its own.
C1_CanvasSizeIsMaximum ==
    (Normalized /\ Len(images) > 0) =>
        /\ \A i \in 1..Len(images) : Src(i).width <= norm.maxWidth
        /\ \E i \in 1..Len(images) : Src(i).width = norm.maxWidth
        /\ \A i \in 1..Len(images) : Src(i).height <= norm.maxHeight
        /\ \E i \in 1..Len(images) : Src(i).height = norm.maxHeight

\* the two maxima come from different images, and no image has both
C1_Witness ==
    /\ Normalized
    /\ \E i, j \in 1..Len(images) :
          /\ Src(i).width = norm.maxWidth /\ Src(i).height < norm.maxHeight
          /\ Src(j).height = norm.maxHeight /\ Src(j).width < norm.maxWidth
    /\ \A i \in 1..Len(images) :
          Src(i).width < norm.maxWidth \/ Src(i).height < norm.maxHeight

\* C2: one buffer per input image, in input order, each of exactly
\* maxWidth * maxHeight * 4 bytes; output i holds bytes of input i only,
\* starting with input i's first pixel.
C2_OneBufferPerImageInOrder ==
    Normalized =>
        /\ Len(norm.rgbaImages) = Len(images)
        /\ \A i \in 1..Len(images) :
              /\ Len(norm.rgbaImages[i]) = norm.maxWidth * norm.maxHeight * 4
              /\ \A c \in 1..4 : norm.rgbaImages[i][c] = Src(i).data[c]
              /\ \A k \in 1..Len(norm.rgbaImages[i]) :
                    \/ norm.rgbaImages[i][k] = 0
                    \/ \E m \in 1..Len(Src(i).data) :
                          Src(i).data[m] = norm.rgbaImages[i][k]

\* three images, the first and the last of different sizes
C2_Witness ==
    /\ Normalized
    /\ Len(images) = MaxImages
    /\ Src(1).width # Src(Len(images)).width

Smaller(i) ==
    Src(i).width < norm.maxWidth \/ Src(i).height < norm.maxHeight

\* C3: a smaller image sits unscaled at the top left of its buffer, and
\* every pixel outside the image's bounds is fully transparent.
C3_TopLeftPlacementZeroPadding ==
    Normalized =>
        \A i \in 1..Len(images) :
            Smaller(i) =>
                \A x \in 0..(norm.maxWidth - 1) :
                \A y \in 0..(norm.maxHeight - 1) :
                \A c \in 0..3 :
                    norm.rgbaImages[i][ByteIndex(norm.maxWidth, x, y, c)] =
                        IF x < Src(i).width /\ y < Src(i).height
                        THEN Src(i).data[ByteIndex(Src(i).width, x, y, c)]
                        ELSE 0

\* an image narrower and lower than the canvas
C3_Witness ==
    /\ Normalized
    /\ \E i \in 1..Len(images) :
          Src(i).width < norm.maxWidth /\ Src(i).height < norm.maxHeight

\* C4: a list whose images all have one size is returned byte for byte, and
\* normalising the result again returns the same sizes and buffers.
C4_SameSizeIdentityAndIdempotence ==
    Uniform =>
        /\ npc # "start" =>
              /\ norm.ok
              /\ norm.maxWidth = Src(1).width
              /\ norm.maxHeight = Src(1).height
              /\ \A i \in 1..Len(images) : norm.rgbaImages[i] = Src(i).data
        /\ npc = "renormalized" => renorm = norm

\* several images of one non-square size, normalised twice
C4_Witness ==
    /\ Uniform
    /\ npc = "renormalized"
    /\ Len(images) >= 2
    /\ Src(1).width # Src(1).height

\* C11: normalising an empty image list fails with an EmptyInput error; it
\* does not return a canvas size and an empty result.
C11_EmptyListRejected ==
    (npc # "start" /\ Len(images) = 0) =>
        (~norm.ok /\ norm.error = "EmptyInputError")

HasZeroSide(i) ==
    HasCanvas(images[i]) /\ (Src(i).width = 0 \/ Src(i).height = 0)

\* the sum of the lengths of the first n arrays
RECURSIVE SumOfLengths(_, _)
SumOfLengths(arrs, n) == IF n = 0 THEN 0 ELSE SumOfLengths(arrs, n - 1) + Len(arrs[n])

\* flattenImagesToRgba has returned
Flattened == call # NoCall

\* C15: the flattened buffer is as long as the arrays together and array i
\* occupies the bytes that start at the sum of the lengths of the arrays
\* before it, in list order; for normalised arrays it has
\* maxWidth * maxHeight * 4 * num_images bytes, num_images being the length
\* of the image list.
C15_FlattenLayout ==
    Flattened =>
        /\ Len(call.images_rgba) = SumOfLengths(call.images, Len(call.images))
        /\ \A i \in 1..Len(call.images) :
              SubSeq(call.images_rgba, SumOfLengths(call.images, i - 1) + 1, SumOfLengths(call.images, i)) = call.images[i]
        /\ (norm.ok /\ call.images = norm.rgbaImages) =>
              /\ call.num_images = Len(images)
              /\ Len(call.images_rgba) = norm.maxWidth * norm.maxHeight * 4 * call.num_images

\* three arrays, the first two of different lengths
C15_Witness ==
    /\ Flattened
    /\ Len(call.images) = 3
    /\ Len(call.images[1]) > 0
    /\ Len(call.images[1]) # Len(call.images[2])
    /\ Len(call.images_rgba) > Len(call.images[1]) + Len(call.images[2])

\* C12: normalising a list that holds an image of zero width or zero height
\* fails with InvalidDimensionsError and produces no buffers (checked under
\* SpecInvalid).
C12_ZeroSideRejected ==
    (npc # "start" /\ \E i \in 1..Len(images) : HasZeroSide(i)) =>
        /\ ~norm.ok
        /\ norm.error = "InvalidDimensionsError"
        /\ norm.rgbaImages = << >>

(***************************************************************************)
(* Claims about the composed grid, checked under SpecCompose.              *)
(***************************************************************************)
Composed == npc = "composed"

InBounds ==
    /\ call.cropLeft + call.cropWidth <= norm.maxWidth
    /\ call.cropTop + call.cropHeight <= norm.maxHeight

ValidGrid == call.gridCols >= 1 /\ call.gridRows >= 1

Capacity == call.gridCols * call.gridRows

\* byte c of pixel (x,y) of the crop of the image at 0-based index i
CropByte(i, x, y, c) ==
    norm.rgbaImages[i + 1][ByteIndex(norm.maxWidth, call.cropLeft + x,
                                     call.cropTop + y, c)]

\* byte c of pixel (x,y) of the returned grid image
OutByte(x, y, c) ==
    outRgba.data[ByteIndex(call.gridCols * call.cropWidth, x, y, c)]

\* C5: the crop of image i (i < cols*rows) fills the cell in column
\* i mod cols and row i div cols.
C5_RowMajorPlacement ==
    (Composed /\ InBounds /\ ValidGrid) =>
        /\ outRgba.ok
        /\ \A i \in 0..(Len(norm.rgbaImages) - 1) :
              i < Capacity =>
                 \A x \in 0..(call.cropWidth - 1) :
                 \A y \in 0..(call.cropHeight - 1) :
                 \A c \in 0..3 :
                    OutByte((i % call.gridCols) * call.cropWidth + x,
                            (i \div call.gridCols) * call.cropHeight + y, c)
                        = CropByte(i, x, y, c)

\* three images on a 2 x 2 grid with a crop that starts off the origin
C5_Witness ==
    /\ Composed /\ outRgba.ok
    /\ Len(norm.rgbaImages) = 3
    /\ call.gridCols = 2 /\ call.gridRows = 2
    /\ call.cropLeft > 0

\* the 0-based index of the cell that byte k of the output lies in
CellOfByte(k) ==
    LET p == (k - 1) \div 4
        x == p % (call.gridCols * call.cropWidth)
        y == p \div (call.gridCols * call.cropWidth)
    IN  (y \div call.cropHeight) * call.gridCols + (x \div call.cropWidth)

BytesOf(i) == { norm.rgbaImages[i + 1][m] : m \in 1..Len(norm.rgbaImages[i + 1]) }

\* C6: with more images than cells the call succeeds, every cell shows the
\* image of its own index (so the first cols*rows images, in order) and no
\* byte of an image of index >= cols*rows is in the output.
C6_SurplusImagesDropped ==
    (Composed /\ InBounds /\ ValidGrid /\ Capacity < Len(norm.rgbaImages)) =>
        /\ outRgba.ok
        /\ \A k \in 1..Len(outRgba.data) :
              /\ outRgba.data[k] \in BytesOf(CellOfByte(k))
              /\ \A i \in Capacity..(Len(norm.rgbaImages) - 1) :
                    outRgba.data[k] \notin BytesOf(i)

\* three images, two cells
C6_Witness ==
    /\ Composed /\ outRgba.ok
    /\ Len(norm.rgbaImages) = 3
    /\ Capacity = 2

\* C7: the returned buffer has cols*cropWidth*rows*cropHeight*4 bytes
\* whatever the number of images, so the callers' ImageData of
\* gridCols*cellWidth by gridRows*cellHeight accepts it.
C7_OutputSize ==
    (Composed /\ InBounds /\ ValidGrid) =>
        /\ outRgba.ok
        /\ Len(outRgba.data) =
              call.gridCols * call.cropWidth * call.gridRows * call.cropHeight * 4
        /\ ImageDataAccepts(outRgba.data, call.gridCols * call.cropWidth,
                            call.gridRows * call.cropHeight)

\* a non-square crop on a non-square grid, with fewer images than cells
C7_Witness ==
    /\ Composed /\ outRgba.ok
    /\ call.cropWidth # call.cropHeight
    /\ call.gridCols # call.gridRows
    /\ Len(norm.rgbaImages) < Capacity

\* C8: a crop contained in the image yields region.width by region.height
\* pixels, pixel (x,y) being source pixel (left + x, top + y); seen through
\* a grid of one cell.
C8_CropPixels ==
    (Composed /\ InBounds /\ call.gridCols = 1 /\ call.gridRows = 1) =>
        /\ outRgba.ok
        /\ Len(outRgba.data) = call.cropWidth * call.cropHeight * 4
        /\ \A x \in 0..(call.cropWidth - 1) :
           \A y \in 0..(call.cropHeight - 1) :
           \A c \in 0..3 :
              outRgba.data[ByteIndex(call.cropWidth, x, y, c)] =
                  Src(1).data[ByteIndex(Src(1).width, call.cropLeft + x,
                                        call.cropTop + y, c)]

\* a crop off the left edge only, smaller than the image
C8_Witness ==
    /\ Composed /\ outRgba.ok
    /\ call.gridCols = 1 /\ call.gridRows = 1
    /\ call.cropLeft > 0 /\ call.cropTop = 0
    /\ call.cropHeight > call.cropWidth

C14_UnfilledCellsTransparent ==
    (Composed /\ outRgba.ok /\ Len(norm.rgbaImages) < Capacity) =>
        \A k \in 1..Len(outRgba.data) :
           CellOfByte(k) >= Len(norm.rgbaImages) => outRgba.data[k] = 0

\* images were placed (their bytes are in the output) and a cell stayed empty
C14_Witness ==
    /\ Composed /\ outRgba.ok
    /\ Len(norm.rgbaImages) >= 1
    /\ Len(norm.rgbaImages) < Capacity
    /\ \E k \in 1..Len(outRgba.data) :
          CellOfByte(k) < Len(norm.rgbaImages) /\ outRgba.data[k] # 0

\* the bytes of tile i
TileBytes(i) == { tiles.tiles[i].image.data[m] : m \in 1..Len(tiles.tiles[i].image.data) }

\* C17: the byte ranges the writers of two different placed cells write are
\* disjoint, so whatever order the writers ran in, the buffer they leave is
\* the one the sequential composition returns; two different tiles hold no
\* byte of the image in common.
C17_CellWritesDisjoint ==
    /\ cells.started =>
          /\ \A a, b \in cells.written : a.cell # b.cell => a.range \cap b.range = {}
          /\ cells.pending = {} => cells.data = outRgba.data
    /\ (npc = "split" /\ tiles.ok) =>
          \A i, j \in 1..Len(tiles.tiles) : i # j => TileBytes(i) \cap TileBytes(j) = {}

\* every writer of a grid of at least three placed cells has run
C17_Witness ==
    /\ cells.started
    /\ cells.pending = {}
    /\ Cardinality(cells.written) >= 3
    /\ \A a \in cells.written : a.range # {}
    /\ cells.data = outRgba.data

\* a crop-split call has returned
SplitDone == npc = "split"

EnsuredImage(imgObj) ==
    IF HasCanvas(imgObj) THEN imgObj
    ELSE [imgObj EXCEPT !.canvas = << LoadedCanvas(imgObj.url, NaturalWidth(imgObj.url), NaturalHeight(imgObj.url)) >>]

\* mutant: the button is disabled for the empty list only
CreateImageDisabledWhenEmpty == Len(images) = 0

\* :disabled="state.isGenerating || state.images.length === 0"
CreateImageDisabled == isGenerating \/ Len(images) = 0

\* a click on the enabled "Create Image" button: onGenerateImage
GenerateClickWithin(limit) ==
    /\ ops < MaxOps
    /\ Cardinality(tasks) < limit
    /\ ~CreateImageDisabled
    /\ isGenerating' = TRUE
    /\ infoMessage' = "Generating image..."
    /\ tasks' = tasks \cup {Task(ops + 1, "generate", "timer")}
    /\ ops' = ops + 1
    /\ UNCHANGED << pipeVars, errorMessage, aspectRatioMode, coordinates, cropperCurrent, gridCols, gridRows, activeImageIndex, lastCoordinates, image, imageWidth, imageHeight, widgetVars, nextOid >>

\* a click on Create Image while no other handler is pending
GenerateClick == GenerateClickWithin(MaxPending)

\* the timer of onGenerateImage fires: generateImage up to its await of the
\* canvases of the images the list holds now
GenerateStart ==
    \E t \in tasks :
       /\ t.kind = "generate" /\ t.pc = "timer"
       /\ IF Len(images) = 0
          THEN /\ errorMessage' = "No images available. Cannot generate grid image."
               /\ tasks' = tasks \ {t}
               /\ UNCHANGED isGenerating
          ELSE /\ errorMessage' = Null
               /\ isGenerating' = TRUE
               /\ tasks' = (tasks \ {t}) \cup {[t EXCEPT !.pc = "canvases", !.captured = { images[k].oid : k \in 1..Len(images) }, !.snapshot = [k \in 1..Len(images) |-> images[k].url]]}
       /\ UNCHANGED << pipeVars, infoMessage, aspectRatioMode, coordinates, cropperCurrent, gridCols, gridRows, activeImageIndex, lastCoordinates, image, imageWidth, imageHeight, widgetVars, ops, nextOid >>

\* every awaited canvas is there: generateImage from the size loop to the
\* start of convertToBlob, on the list and the coordinates as they are now
GenerateCompose ==
    \E t \in tasks :
       /\ t.kind = "generate" /\ t.pc = "canvases"
       /\ LET list == [k \in 1..Len(images) |->
                          IF images[k].oid \in t.captured
                          THEN EnsuredImage(images[k]) ELSE images[k]]
              r == normalizeImagesToMaxSize(list)
              out == cropAndGridImages(r.rgbaImages, r.maxWidth, r.maxHeight, coordinates.left, coordinates.top, coordinates.width, coordinates.height, gridCols, gridRows)
          IN  /\ images' = list
              /\ norm' = r
              /\ IF ~r.ok
                 THEN /\ errorMessage' = "Failed to load image"
                      /\ isGenerating' = FALSE
                      /\ tasks' = tasks \ {t}
                      /\ UNCHANGED << call, outRgba, infoMessage >>
                 ELSE /\ call' = [cropLeft |-> coordinates.left, cropTop |-> coordinates.top, cropWidth |-> coordinates.width, cropHeight |-> coordinates.height, gridCols |-> gridCols, gridRows |-> gridRows]
                      /\ outRgba' = out
                      /\ IF out.ok /\ ImageDataAccepts(out.data, gridCols * coordinates.width, gridRows * coordinates.height)
                         THEN /\ tasks' = (tasks \ {t}) \cup {[t EXCEPT !.pc = "blob"]}
                              /\ UNCHANGED << errorMessage, isGenerating, infoMessage >>
                         ELSE /\ errorMessage' = "Failed to generate grid image using Wasm."
                              /\ isGenerating' = FALSE
                              /\ infoMessage' = Null
                              /\ tasks' = tasks \ {t}
       /\ UNCHANGED << returned, renorm, npc, tiles, cells, aspectRatioMode, coordinates, cropperCurrent, gridCols, gridRows, activeImageIndex, lastCoordinates, image, imageWidth, imageHeight, widgetVars, ops, nextOid >>

\* convertToBlob resolved with a blob: the image opens in a new tab
GenerateBlobDone ==
    \E t \in tasks :
       /\ t.kind = "generate" /\ t.pc = "blob"
       /\ isGenerating' = FALSE
       /\ errorMessage' = Null
       /\ tasks' = tasks \ {t}
       /\ UNCHANGED << pipeVars, infoMessage, aspectRatioMode, coordinates, cropperCurrent, gridCols, gridRows, activeImageIndex, lastCoordinates, image, imageWidth, imageHeight, widgetVars, ops, nextOid >>

Next ==
    \/ DropStart
    \/ DropRead
    \/ SetActiveImage
    \/ RemoveImage
    \/ ImageLoaded
    \/ NumericInput
    \/ SetAspectRatioMode
    \/ UserMovesStencil
    \/ CropperChange
    \/ CropperReady
    \/ ReadyTimerFires
    \/ GenerateClick
    \/ GenerateStart
    \/ GenerateCompose
    \/ GenerateBlobDone

Spec == Init /\ [][Next]_vars

(***************************************************************************)
(* The same handlers when a second one may start while the first awaits,   *)
(* and the reordering of the thumbnails.                                   *)
(***************************************************************************)
MaxOverlap == 2

\* arr.splice(idx, 0, moved), idx counted from 0
SpliceIn(list, idx, moved) ==
    [k \in 1..(Len(list) + 1) |->
        IF k <= idx THEN list[k] ELSE IF k = idx + 1 THEN moved ELSE list[k - 1]]

\* newArr.findIndex(img => img.url === activeUrl)
FindIndexByUrl(list, activeUrl) ==
    IF \E k \in 1..Len(list) : list[k].url = activeUrl
    THEN (CHOOSE k \in 1..Len(list) :
             list[k].url = activeUrl /\ \A j \in 1..(k - 1) : list[j].url # activeUrl) - 1
    ELSE -1

\* onReorderImages: the activeImageIndex that goes with the new array
ReorderedIndex(newArr) ==
    IF activeImageIndex >= Len(newArr) THEN Len(newArr) - 1
    ELSE IF FindIndexByUrl(newArr, image) # -1 THEN FindIndexByUrl(newArr, image)
    ELSE activeImageIndex

\* a thumbnail dragged onto another one: onThumbDrop and onReorderImages
Reorder ==
    /\ ops < MaxOps
    /\ Len(images) > 1
    /\ \E dragSrcIdx, idx \in 0..(Len(images) - 1) :
          /\ dragSrcIdx # idx
          /\ LET newArr == SpliceIn(Splice(images, dragSrcIdx), idx, images[dragSrcIdx + 1])
             IN  /\ images' = newArr
                 /\ activeImageIndex' = ReorderedIndex(newArr)
    /\ ops' = ops + 1
    /\ UNCHANGED << returned, norm, renorm, call, outRgba, npc, tiles, cells, errorMessage, infoMessage, aspectRatioMode, coordinates, cropperCurrent, gridCols, gridRows, lastCoordinates, image, imageWidth, imageHeight, isGenerating, widgetVars, tasks, nextOid >>

\* a drop while another handler awaits
DropStartOverlapping == DropStartWithin(MaxOverlap)

\* a click on a thumbnail while another handler awaits
SetActiveImageOverlapping == SetActiveImageWithin(MaxOverlap)

\* a click on a remove button while another handler awaits
RemoveImageOverlapping == RemoveImageWithin(MaxOverlap)

\* a click on Create Image while another handler awaits
GenerateClickOverlapping == GenerateClickWithin(MaxOverlap)

NextOverlap ==
    \/ DropStartOverlapping
    \/ DropRead
    \/ SetActiveImageOverlapping
    \/ RemoveImageOverlapping
    \/ Reorder
    \/ ImageLoaded
    \/ CropperChange
    \/ CropperReady
    \/ ReadyTimerFires

SpecOverlap == Init /\ [][NextOverlap]_vars

\* drops and thumbnail clicks, one handler at a time, with the Cropper's
\* events
NextReady ==
    \/ DropStart
    \/ DropRead
    \/ SetActiveImage
    \/ ImageLoaded
    \/ CropperChange
    \/ CropperReady
    \/ ReadyTimerFires

\* what the browser does without the user: a FileReader or an Image that
\* loads completes, the Cropper emits the events it owes, a timer that is
\* set fires. The user's drops and clicks are under no obligation.
FairReady ==
    /\ WF_vars(DropRead)
    /\ WF_vars(ImageLoaded)
    /\ WF_vars(CropperChange)
    /\ WF_vars(CropperReady)
    /\ WF_vars(ReadyTimerFires)

SpecReady == Init /\ [][NextReady]_vars /\ FairReady

\* overlapping drops, each file read completing or failing on its own
NextDrop ==
    \/ DropStartOverlapping
    \/ DropFileRead
    \/ DropReadComplete
    \/ DropFileError
    \/ ImageLoaded

SpecDrop == Init /\ [][NextDrop]_vars

(***************************************************************************)
(* updateImageSize on images of every size up to MaxNatural.               *)
(***************************************************************************)
MaxNatural == 10

\* img.onload of updateImageSize(src, false) for an image of naturalWidth w
\* and naturalHeight h, on a new CropperState
UpdateImageSize ==
    /\ npc = "start"
    /\ \E w, h \in 1..MaxNatural :
          /\ imageWidth' = w
          /\ imageHeight' = h
          /\ coordinates' = IF lastCoordinates # << >> THEN lastCoordinates[1] ELSE DefaultCrop(w, h)
    /\ npc' = "sized"
    /\ UNCHANGED << returned, images, norm, renorm, call, outRgba, tiles, cells, errorMessage, infoMessage, aspectRatioMode, cropperCurrent, gridCols, gridRows, activeImageIndex, lastCoordinates, image, isGenerating, widgetVars, tasks, ops, nextOid >>

SpecImageSize == Init /\ [][UpdateImageSize]_vars

\* drops, removals, reorderings and generations, overlapping; the Cropper's
\* events and the thumbnail clicks are left to SpecOverlap
NextGenerate ==
    \/ DropStartOverlapping
    \/ DropRead
    \/ RemoveImageOverlapping
    \/ Reorder
    \/ ImageLoaded
    \/ GenerateClickOverlapping
    \/ GenerateStart
    \/ GenerateCompose
    \/ GenerateBlobDone

SpecGenerate == Init /\ [][NextGenerate]_vars

(***************************************************************************)
(* Claims about the cropper, checked under Spec.                           *)
(***************************************************************************)
\* the crop region that generateImage handed to cropAndGridImages lies within
\* the normalised canvas
HandedRegionInBounds ==
    /\ call.cropLeft >= 0
    /\ call.cropTop >= 0
    /\ call.cropLeft + call.cropWidth <= norm.maxWidth
    /\ call.cropTop + call.cropHeight <= norm.maxHeight

\* C10: whatever the user did before, the region that generateImage hands to
\* cropAndGridImages is within the bounds of the normalised canvas.
C10_HandedRegionWithinCanvas == (call # NoCall) => HandedRegionInBounds

(***************************************************************************)
(* generateCropGridImage: the canvases of the images are created by one    *)
(* image load per image, all started together and completing in any order. *)
(***************************************************************************)

\* the coordinates the first image can carry
ServiceCrops == { Coords(0, 0, 1, 1), Coords(1, 0, 1, 2) }

\* an image object of the service: coordinates is << >> when the object
\* carries none; loaded is not a field of the program, it records the
\* image's onload (0: none yet, 1: it ran, 2: it ran while the load of an
\* earlier image of another url was still pending)
ServiceImage(name, url, hasCanvas, coords) ==
    [name |-> name, url |-> url, coordinates |-> coords, loaded |-> 0,
     canvas |-> IF hasCanvas THEN << LoadedCanvas(url, NaturalWidth(url), NaturalHeight(url)) >> ELSE << >>]

InitEnsure ==
    /\ \E n \in 1..MaxImages :
       \E urls \in [1..n -> Files] :
       \E has \in [1..n -> BOOLEAN] :
       \E crop \in ServiceCrops :
          images = [i \in 1..n |-> ServiceImage(i, urls[i], has[i], << crop >>)]
    /\ PipeIdle
    /\ UiConstructed

\* the coordinates an image object can carry: none, or one of ServiceCrops
ServiceCoordinates == { << >> } \cup { << c >> : c \in ServiceCrops }

\* params.images of a service call: up to MaxImages image objects, the
\* first with its coordinates, the others with theirs, some with a canvas;
\* or the empty list, which is also the list of a new CropperState
InitService ==
    /\ \E n \in 0..MaxImages :
       \E has \in [1..n -> BOOLEAN] :
       \E first, others \in ServiceCoordinates :
          images = [i \in 1..n |-> ServiceImage(i, ((i - 1) % MaxFiles) + 1, has[i], IF i = 1 THEN first ELSE others)]
    /\ PipeIdle
    /\ UiConstructed

\* mutant: the list is never found empty
HasNoImagesNever(list) == FALSE

\* !images.length, this.images.length === 0
HasNoImages(list) == Len(list) = 0

\* if (!images.length) return { ok: false, error: 'No images available.' }
ServiceEmpty ==
    /\ npc = "start"
    /\ HasNoImages(images)
    /\ returned' = [ok |-> FALSE, error |-> "No images available.", blobUrl |-> ""]
    /\ npc' = "failed"
    /\ UNCHANGED << images, norm, renorm, call, outRgba, tiles, cells, uiVars >>

\* generateImage() of a CropperState whose list is empty
GenerateImageEmpty ==
    /\ npc = "start"
    /\ HasNoImages(images)
    /\ errorMessage' = "No images available. Cannot generate grid image."
    /\ npc' = "refused"
    /\ UNCHANGED << returned, images, norm, renorm, call, outRgba, tiles, cells, infoMessage, aspectRatioMode, coordinates, cropperCurrent, gridCols, gridRows, activeImageIndex, lastCoordinates, image, imageWidth, imageHeight, isGenerating, widgetVars, tasks, ops, nextOid >>

\* images.map(async imgObj => ...): one Image per image object that has no
\* canvas, its src set, all before the first onload
EnsureStart ==
    /\ npc = "start"
    /\ ~HasNoImages(images)
    /\ tasks' = { [Task(i, "load", "onload") EXCEPT !.src = images[i].url, !.idx = i] :
                    i \in { k \in 1..Len(images) : ~HasCanvas(images[k]) } }
    /\ npc' = "ensuring"
    /\ UNCHANGED << returned, images, norm, renorm, call, outRgba, tiles, cells, stateVars, widgetVars, ops, nextOid >>

\* mutant: the canvas goes to the first image object that has none
OnloadTargetFirstWithout(t, list) ==
    CHOOSE i \in 1..Len(list) :
        ~HasCanvas(list[i]) /\ \A j \in 1..(i - 1) : HasCanvas(list[j])

\* imgObj of the closure of img.onload
OnloadTarget(t, list) == t.idx

\* img.onload of one of the pending loads
EnsureOnload ==
    \E t \in tasks :
       /\ t.kind = "load"
       /\ images' = [images EXCEPT ![OnloadTarget(t, images)] =
                        [@ EXCEPT !.canvas = << LoadedCanvas(t.src, NaturalWidth(t.src), NaturalHeight(t.src)) >>,
                                  !.loaded = IF \E u \in tasks : u.idx < t.idx /\ u.src # t.src THEN 2 ELSE 1]]
       /\ tasks' = tasks \ {t}
       /\ UNCHANGED << returned, norm, renorm, call, outRgba, npc, tiles, cells, stateVars, widgetVars, ops, nextOid >>

\* img.onerror of one of the pending loads: Promise.all rejects with the
\* first error and the service returns it from its catch, before the try
\* whose finally releases the canvases; the other loads still complete
EnsureOnerror ==
    \E t \in tasks :
       /\ t.kind = "load"
       /\ tasks' = tasks \ {t}
       /\ npc' = "failed"
       /\ returned' = IF npc = "ensuring"
                      THEN [ok |-> FALSE, error |-> "Failed to load image", blobUrl |-> ""]
                      ELSE returned
       /\ UNCHANGED << images, norm, renorm, call, outRgba, tiles, cells, stateVars, widgetVars, ops, nextOid >>

\* mutant: the coordinates of the last image are used
CoordinatesToUseOfLast(list) ==
    IF Len(list) = 0 \/ list[Len(list)].coordinates = << >> THEN Coords(0, 0, 100, 100)
    ELSE list[Len(list)].coordinates[1]

\* images[0]?.coordinates || { left: 0, top: 0, width: 100, height: 100 }
CoordinatesToUse(list) ==
    IF Len(list) = 0 \/ list[1].coordinates = << >> THEN Coords(0, 0, 100, 100)
    ELSE list[1].coordinates[1]

\* releaseOffscreenCanvasForImages(images)
Released(list) == [i \in 1..Len(list) |-> [list[i] EXCEPT !.canvas = << >>]]

\* Promise.all resolved: generateCropGridImage from the coordinates of the
\* first image to its await of convertToBlob, or to its return when the
\* normalisation throws (no release) or the core or ImageData throws (catch,
\* then the finally block)
EnsureCompose ==
    /\ npc = "ensuring"
    /\ tasks = {}
    /\ norm' = normalizeImagesToMaxSize(images)
    /\ IF norm'.ok
       THEN \E grid_cols, grid_rows \in 1..MaxGrid :
               LET c == CoordinatesToUse(images)
               IN  /\ call' = [cropLeft |-> c.left, cropTop |-> c.top,
                               cropWidth |-> c.width, cropHeight |-> c.height,
                               gridCols |-> grid_cols, gridRows |-> grid_rows]
                   /\ outRgba' = cropAndGridImages(norm'.rgbaImages, norm'.maxWidth, norm'.maxHeight,
                                                   c.left, c.top, c.width, c.height, grid_cols, grid_rows)
                   /\ IF outRgba'.ok /\ ImageDataAccepts(outRgba'.data, grid_cols * c.width, grid_rows * c.height)
                      THEN /\ npc' = "composed"
                           /\ UNCHANGED << images, returned >>
                      ELSE /\ npc' = "failed"
                           /\ returned' = [ok |-> FALSE, error |-> "Failed to generate grid image using Wasm.", blobUrl |-> ""]
                           /\ images' = Released(images)
       ELSE /\ npc' = "failed"
            /\ returned' = [ok |-> FALSE, error |-> "Failed to normalize images.", blobUrl |-> ""]
            /\ UNCHANGED << images, call, outRgba >>
    /\ UNCHANGED << renorm, tiles, cells, uiVars >>

\* convertToBlob settled, with a blob, with null or with a rejection: the
\* return and the finally block
EnsureRelease ==
    /\ npc = "composed"
    /\ \E outcome \in {"blob", "null", "rejected"} :
          returned' = CASE outcome = "blob" -> [ok |-> TRUE, error |-> "", blobUrl |-> "blob:1"]
                        [] outcome = "null" -> [ok |-> FALSE, error |-> "Failed to create image Blob.", blobUrl |-> ""]
                        [] outcome = "rejected" -> [ok |-> FALSE, error |-> "Failed to generate grid image using Wasm.", blobUrl |-> ""]
    /\ images' = Released(images)
    /\ npc' = "released"
    /\ UNCHANGED << norm, renorm, call, outRgba, tiles, cells, uiVars >>

NextEnsure ==
    \/ EnsureStart
    \/ EnsureOnload
    \/ EnsureOnerror
    \/ EnsureCompose
    \/ EnsureRelease

SpecEnsure == InitEnsure /\ [][NextEnsure]_vars

NextService ==
    \/ ServiceEmpty
    \/ GenerateImageEmpty
    \/ NextEnsure

SpecService == InitService /\ [][NextService]_vars

\* the canvas decoded from the image's own url
OwnCanvas(imgObj) == LoadedCanvas(imgObj.url, NaturalWidth(imgObj.url), NaturalHeight(imgObj.url))

\* the list after the images were given their canvases one at a time
OneAtATime == [i \in 1..Len(images) |-> [images[i] EXCEPT !.canvas = << OwnCanvas(images[i]) >>]]

\* C16: whatever order the image loads complete in, an image object only
\* ever holds the canvas of its own url, and the grid that is composed is
\* the one composed from the images given their canvases one at a time, in
\* list order.
C16_LoadOrderIrrelevant ==
    /\ \A i \in 1..Len(images) :
          HasCanvas(images[i]) => images[i].canvas[1] = OwnCanvas(images[i])
    /\ Composed =>
          LET r == normalizeImagesToMaxSize(OneAtATime)
          IN  /\ norm = r
              /\ outRgba = cropAndGridImages(r.rgbaImages, r.maxWidth, r.maxHeight,
                                             call.cropLeft, call.cropTop, call.cropWidth, call.cropHeight,
                                             call.gridCols, call.gridRows)

\* a grid of two images of different urls whose loads completed in the
\* reverse of the list order
C16_Witness ==
    /\ Composed /\ outRgba.ok
    /\ Capacity >= 2
    /\ \E i, j \in 1..Len(images) :
          /\ i < j
          /\ images[i].url # images[j].url
          /\ images[i].loaded = 1
          /\ images[j].loaded = 2

(***************************************************************************)
(* Properties of splitIntoTiles, on one image of up to MaxSide by MaxSide. *)
(***************************************************************************)

SplitOk == npc = "split" /\ tiles.ok

TileWidth == call.cropWidth \div call.gridCols

TileHeight == call.cropHeight \div call.gridRows

\* the tile at row r, column c of the returned list read row-major
TileAt(r, c) == tiles.tiles[r * call.gridCols + c + 1].image

\* byte ch of pixel (x, y) of the cropped buffer as the tiles hold it
TiledByte(x, y, ch) ==
    TileAt(y \div TileHeight, x \div TileWidth).data[ByteIndex(TileWidth, x % TileWidth, y % TileHeight, ch)]

RECURSIVE SumOfTileLengths(_)
SumOfTileLengths(n) == IF n = 0 THEN 0 ELSE SumOfTileLengths(n - 1) + Len(tiles.tiles[n].image.data)

\* C18: when the region's width is a multiple of cols and its height a
\* multiple of rows, putting the tiles back row-major gives the cropped
\* buffer byte for byte, and the tiles together hold exactly as many bytes
\* as the cropped buffer: no gap and no overlap.
C18_TilesPartitionCrop ==
    (SplitOk /\ call.cropWidth % call.gridCols = 0 /\ call.cropHeight % call.gridRows = 0) =>
        /\ \A x \in 0..(call.cropWidth - 1) : \A y \in 0..(call.cropHeight - 1) : \A ch \in 0..3 :
              TiledByte(x, y, ch) = CropByte(0, x, y, ch)
        /\ SumOfTileLengths(Len(tiles.tiles)) = call.cropWidth * call.cropHeight * 4
        /\ \A i, j \in 1..Len(tiles.tiles) : i # j => TileBytes(i) \cap TileBytes(j) = {}

\* a 2 x 2 region off the image's corner split into 2 x 2 tiles
C18_Witness ==
    /\ SplitOk
    /\ call.gridCols = 2 /\ call.gridRows = 2
    /\ call.cropWidth = 2 /\ call.cropHeight = 2
    /\ call.cropLeft = 1 /\ call.cropTop = 1
    /\ Len(tiles.tiles) = 4

\* the bytes of pixel (x, y) of the cropped buffer
CropPixelBytes(x, y) == { CropByte(0, x, y, ch) : ch \in 0..3 }

\* C19: a split yields exactly cols * rows tiles, each region.width div cols
\* wide and region.height div rows high; the columns and rows of the crop
\* beyond cols * tile width and rows * tile height are in no tile, and the
\* columns and rows before them are.
C19_TileSizesTruncate ==
    SplitOk =>
        /\ Len(tiles.tiles) = call.gridCols * call.gridRows
        /\ \A i \in 1..Len(tiles.tiles) :
              /\ tiles.tiles[i].image.width = call.cropWidth \div call.gridCols
              /\ tiles.tiles[i].image.height = call.cropHeight \div call.gridRows
              /\ Len(tiles.tiles[i].image.data) = (call.cropWidth \div call.gridCols) * (call.cropHeight \div call.gridRows) * 4
        /\ \A x \in 0..(call.cropWidth - 1) : \A y \in 0..(call.cropHeight - 1) :
              (x >= call.gridCols * TileWidth \/ y >= call.gridRows * TileHeight)
                 <=> \A i \in 1..Len(tiles.tiles) : TileBytes(i) \cap CropPixelBytes(x, y) = {}

\* a region 3 wide split into 2 columns: tiles 1 wide, the third column lost
C19_Witness ==
    /\ SplitOk
    /\ call.cropWidth = 3 /\ call.gridCols = 2
    /\ Len(tiles.tiles) = 2 * call.gridRows
    /\ tiles.tiles[1].image.width = 1

\* {prefix}_{index}.{ext} for the prefix and extension of the split
NameOfIndex(index) == tiles.prefix \o "_" \o ToString(index) \o "." \o tiles.ext

\* C20: the tiles are named {prefix}_{index}.{ext}, the indexes being
\* 1..cols*rows, each once, and the tile that shows row r, column c of the
\* region carries index r * cols + c + 1.
C20_TileNamesRowMajor ==
    SplitOk =>
        /\ { tiles.tiles[i].name : i \in 1..Len(tiles.tiles) } = { NameOfIndex(n) : n \in 1..(call.gridCols * call.gridRows) }
        /\ \A i, j \in 1..Len(tiles.tiles) : i # j => tiles.tiles[i].name # tiles.tiles[j].name
        /\ \A r \in 0..(call.gridRows - 1) : \A c \in 0..(call.gridCols - 1) :
              \A i \in 1..Len(tiles.tiles) :
                 (tiles.tiles[i].image.data[1] = CropByte(0, c * TileWidth, r * TileHeight, 0))
                    <=> (tiles.tiles[i].name = NameOfIndex(r * call.gridCols + c + 1))

\* four tiles, the one of row 1, column 0 named part_3.png
C20_Witness ==
    /\ SplitOk
    /\ call.gridCols = 2 /\ call.gridRows = 2
    /\ tiles.prefix = "part"
    /\ \E i \in 1..Len(tiles.tiles) :
          /\ tiles.tiles[i].name = "part_3.png"
          /\ tiles.tiles[i].image.data[1] = CropByte(0, 0, TileHeight, 0)
(***************************************************************************)
(* The generation services: crop region, empty list, release of canvases.  *)
(***************************************************************************)
\* the service has returned its result object
ServiceReturned == returned # NoReturn

\* the pixel of normalised image i at (x, y), channel c
NormByte(i, x, y, c) == norm.rgbaImages[i][ByteIndex(norm.maxWidth, x, y, c)]

\* the number of images the grid of the call has cells for
PlacedImages == MathMin(Len(norm.rgbaImages), call.gridCols * call.gridRows)

\* C21: a generation service passes one crop region to the core: the
\* coordinates of the first image, or left 0, top 0, width 100, height 100
\* when the first image has none, whatever the other images carry; every
\* cell of the grid starts with the pixel of its image at that region's
\* corner.
C21_FirstImageRegionForAll ==
    (call # NoCall) =>
        LET first == images[1].coordinates
            left == IF first = << >> THEN 0 ELSE first[1].left
            top == IF first = << >> THEN 0 ELSE first[1].top
            width == IF first = << >> THEN 100 ELSE first[1].width
            height == IF first = << >> THEN 100 ELSE first[1].height
        IN  /\ call.cropLeft = left /\ call.cropTop = top
            /\ call.cropWidth = width /\ call.cropHeight = height
            /\ outRgba.ok =>
                  \A i \in 1..PlacedImages :
                  \A c \in 0..3 :
                     outRgba.data[ByteIndex(call.gridCols * width,
                                            ((i - 1) % call.gridCols) * width,
                                            ((i - 1) \div call.gridCols) * height, c)]
                         = NormByte(i, left, top, c)

\* a grid was composed from images that carry different coordinates
C21_Witness ==
    /\ call # NoCall /\ outRgba.ok
    /\ PlacedImages >= 2
    /\ images[1].coordinates # << >>
    /\ images[2].coordinates # << >>
    /\ images[2].coordinates # images[1].coordinates

\* the first image carried no coordinates, the second did
C21_WitnessDefault ==
    /\ call # NoCall
    /\ Len(images) >= 2
    /\ images[1].coordinates = << >>
    /\ images[2].coordinates # << >>

\* C22: with an empty list a service returns { ok: false, error: 'No images
\* available.' } and CropperState.generateImage sets errorMessage; neither
\* loads an image, creates a canvas or calls the core.
C22_EmptyListRefused ==
    (Len(images) = 0 /\ npc # "start") =>
        /\ tasks = {}
        /\ norm = NoResult
        /\ call = NoCall
        /\ outRgba = NoOutput
        /\ npc = "refused" =>
              /\ errorMessage = "No images available. Cannot generate grid image."
              /\ returned = NoReturn
        /\ npc # "refused" =>
              /\ returned = [ok |-> FALSE, error |-> "No images available.", blobUrl |-> ""]
              /\ errorMessage = Null

\* a service was called with the empty list and returned
C22_Witness ==
    /\ Len(images) = 0
    /\ ServiceReturned

\* generateImage was called on the empty list
C22_WitnessState ==
    /\ Len(images) = 0
    /\ npc = "refused"

\* C23: once a service has returned, on whichever path, no image object of
\* params.images holds an OffscreenCanvas.
C23_NoCanvasAfterReturn ==
    ServiceReturned => \A i \in 1..Len(images) : ~HasCanvas(images[i])

\* the canvases are released when the service returns after the core call
C23_ReleasedAfterCore ==
    (ServiceReturned /\ call # NoCall) => \A i \in 1..Len(images) : ~HasCanvas(images[i])

\* the service returned a load failure while an image object held a canvas
C23_Witness ==
    /\ ServiceReturned
    /\ returned.error = "Failed to load image"
    /\ \E i \in 1..Len(images) : HasCanvas(images[i])

(***************************************************************************)
(* Claims about the handlers of CropperState, one handler at a time.       *)
(***************************************************************************)
\* no handler is awaiting and no timer is set
Quiescent == tasks = {}

\* the entry of the list that activeImageIndex names
ActiveImage == images[activeImageIndex + 1]

\* C26: once every pending operation has completed, imageWidth and
\* imageHeight are the natural width and height of images[activeImageIndex];
\* after setActiveImage(idx) they are those of images[idx].
C26_SizeOfActiveImage ==
    (Quiescent /\ Len(images) > 0) =>
        /\ imageWidth = NaturalWidth(ActiveImage.url)
        /\ imageHeight = NaturalHeight(ActiveImage.url)

\* C28: once a generation or a drop has finished, successfully or not,
\* infoMessage is null again.
C28_InfoMessageReset ==
    Quiescent => infoMessage = Null

(***************************************************************************)
(* Claims about overlapping handlers, checked under SpecOverlap and        *)
(* SpecGenerate.                                                           *)
(***************************************************************************)
\* C24: in every reachable state, whatever the interleaving of drops,
\* thumbnail clicks, removals and reorderings, activeImageIndex is -1
\* exactly when the list is empty and otherwise an index of the list.
C24_ActiveIndexInRange ==
    /\ (activeImageIndex = -1) <=> (Len(images) = 0)
    /\ Len(images) > 0 => (0 <= activeImageIndex /\ activeImageIndex < Len(images))

\* an entry before the active one was removed while a thumbnail click was
\* still awaiting its load
C24_Witness ==
    /\ \E t, u \in tasks : t.kind = "select" /\ u.kind = "remove" /\ t.id < u.id /\ t.idx > 0
    /\ Len(images) = 1
    /\ activeImageIndex = 0

\* C25: once every pending drop, click, removal and reordering has
\* completed, state.image is the url of images[activeImageIndex], '' for the
\* empty list: a removal during an awaiting setActiveImage leaves no removed
\* image shown.
C25_ImageOfActiveIndex ==
    Quiescent => image = (IF Len(images) = 0 THEN NoUrl ELSE ActiveImage.url)

\* a generation is between the click on Create Image and its last step
Generating == \E t \in tasks : t.kind = "generate"

\* C27: isGenerating is true only while a generation is in progress: every
\* generation the Create Image handler started sets it back to false, also
\* when the list has become empty before generateImage runs.
C27_GeneratingOnlyWhileInProgress ==
    isGenerating => Generating

\* the first byte of the image decoded from a url
FirstByte(url) == LoadedCanvas(url, NaturalWidth(url), NaturalHeight(url)).data[1]

\* the step in which the generation t goes on from its await of the canvases
Resumes(t) == t.kind = "generate" /\ t.pc = "canvases" /\ t \in tasks /\ t \notin tasks'

\* C30: a generation works on the list as it was when generateImage was
\* called: whatever is added, removed or reordered while it awaits the
\* canvases, it normalises those images, in that order, and does not fail
\* for want of a canvas.
C30_GenerationUsesRequestedList ==
    [][\A t \in tasks :
          Resumes(t) =>
             /\ norm'.ok
             /\ Len(norm'.rgbaImages) = Len(t.snapshot)
             /\ \A k \in 1..Len(t.snapshot) : norm'.rgbaImages[k][1] = FirstByte(t.snapshot[k])]_vars

\* the step in which the drop t appends its batch
Appends(t) ==
    /\ t.kind = "drop" /\ t.pc = "read" /\ t \in tasks
    /\ \E u \in tasks' : u.id = t.id /\ u.pc = "load"

\* name a sorts after name b: by the letters without regard to case, then by
\* the value of the digits
NameAfter(a, b) ==
    \/ CompareSeq(Letters(a), Letters(b)) = 1
    \/ /\ CompareSeq(Letters(a), Letters(b)) = 0
       /\ NumericValue(Digits(a)) > NumericValue(Digits(b))

\* C29: a successful drop leaves the previous list, in its order, followed
\* by the files of the drop sorted by name, digits by value and letters
\* without regard to case, whatever order the reads completed in; the
\* batches of two overlapping drops are never interleaved.
C29_DropAppendsSortedBatch ==
    [][\A t \in tasks :
          Appends(t) =>
             /\ Len(images') = Len(images) + Len(t.batch)
             /\ \A k \in 1..Len(images) : images'[k] = images[k]
             /\ \A f \in 1..Len(t.batch) :
                   \E k \in (Len(images) + 1)..Len(images') :
                      images'[k].url = t.batch[f] /\ images'[k].name = FileName(t.batch[f])
             /\ \A k, l \in (Len(images) + 1)..Len(images') :
                   k < l => ~NameAfter(images'[k].name, images'[l].name)]_vars

\* two drops of two files each overlapped; the reads of one completed in
\* the reverse order and its batch stands sorted behind the other's
C29_Witness ==
    /\ \E t, u \in tasks :
          /\ t.id # u.id
          /\ t.kind = "drop" /\ t.pc = "load" /\ t.done = << 2, 1 >>
          /\ u.kind = "drop" /\ u.pc = "load" /\ Len(u.batch) = 2
          /\ t.src = images[Len(images)].url
    /\ Len(images) = 4
    /\ images[3].name = FileName(2)
    /\ images[4].name = FileName(1)

(***************************************************************************)
(* Claims about the thumbnail list and the Create Image button.            *)
(***************************************************************************)
\* C31: thumbnail selection is disabled only for a while: whenever
\* cropperReady is false (onSetActiveImage has set it so), it eventually
\* becomes true again, the Cropper emitting 'ready' only for a new source.
C31_SelectionReenabled ==
    [](~cropperReady => <>cropperReady)

\* C32: at most one setActiveImage started from the thumbnail list is in
\* flight at any time, the clicks being refused while cropperReady is false.
C32_OneSelectionInFlight ==
    Cardinality({ t \in tasks : t.kind = "select" }) <= 1

\* C33: at most one generateImage run is in flight at any time, from the
\* click on Create Image to the blob or the error.
C33_OneGenerationInFlight ==
    Cardinality({ t \in tasks : t.kind = "generate" }) <= 1

\* a generation awaits its canvases with images in the list, and nothing but
\* the disabled button keeps the user from a second click
C33_Witness ==
    /\ \E t \in tasks : t.kind = "generate" /\ t.pc = "canvases"
    /\ Len(images) > 0
    /\ ops < MaxOps
    /\ Cardinality(tasks) < MaxOverlap

\* the step in which the handler t returns from its await of updateImageSize
Completes(t) == t.pc = "load" /\ t \in tasks /\ t \notin tasks'

\* C34: after setActiveImage(idx), and after a drop made while an image was
\* shown, the crop coordinates are those in effect when the operation
\* started.
C34_SwitchKeepsCrop ==
    [][\A t \in tasks :
          (Completes(t) /\ t.kind \in {"select", "drop"} /\ t.crop # << >>) =>
             coordinates' = t.crop[1]]_vars

\* C35: after removeImage(idx) with images remaining, the crop coordinates
\* are those immediately before the call.
C35_RemoveKeepsCrop ==
    [][\A t \in tasks :
          (Completes(t) /\ t.kind = "remove") => coordinates' = t.crop[1]]_vars

\* C36: the default crop of an image loaded with no coordinates to keep is a
\* square of side floor(naturalWidth / 2) inside the image: left >= 0,
\* top >= 0, left + width <= naturalWidth, top + height <= naturalHeight.
C36_DefaultCropInsideImage ==
    npc = "sized" =>
        /\ coordinates.width = imageWidth \div 2
        /\ coordinates.height = coordinates.width
        /\ coordinates.left >= 0
        /\ coordinates.top >= 0
        /\ coordinates.left + coordinates.width <= imageWidth
        /\ coordinates.top + coordinates.height <= imageHeight

====
